---- MODULE Spec2Model ----
(***************************************************************************)
(* stockmap-cli: the concurrent fetch pool (internal/fetcher/pool.go) and  *)
(* the screening engine that consumes it (internal/screener).              *)
(*                                                                         *)
(* Goroutines are processes with a program counter.  A Go select is one    *)
(* step: the channel operands are the pool FIELDS as read when the select  *)
(* is entered (p.ctx, p.symbols, p.results are re-read on every use, they  *)
(* are not captured per run), so a goroutine that arrived at a select      *)
(* during run g selects on the objects of some run between g and the       *)
(* current one; if several cases are ready any one of them may be chosen.  *)
(* Start writes the pool fields in one step.  The workers of a run are     *)
(* interchangeable: they are held as a bag of worker states.               *)
(***************************************************************************)
EXTENDS Integers, Sequences, FiniteSets, Bags, TLC

\* ---- bounds ----
MaxSyms == 2        \* longest symbol list handed to Start
MaxWorkers == 2     \* largest worker count given to NewWorkerPool
MaxStarts == 2      \* number of Start calls on one pool
MaxPrices == 4      \* longest price series handed to RSI with a short period
MaxTicks == 4       \* ticks the ticker of the client fires while watched
MaxAlerts == 2      \* alerts created in the life of one alerts manager
MaxNow == 1         \* milliseconds that pass while the manager is watched
MaxTriggered == 2   \* CheckPrice is called on a buffer shorter than this

Gens == 1..MaxStarts

\* ---- symbols ----
Tickers == {"AA", "BB", "aa"}

ToUpper(s) == IF s = "aa" THEN "AA" ELSE s

SymbolLists == UNION {[1..n -> Tickers] : n \in 1..MaxSyms}

Distinct(l) == \A i, j \in 1..Len(l) : i # j => l[i] # l[j]

SeqToSet(l) == {l[i] : i \in 1..Len(l)}

\* ---- the data source ----
\* float64 values are held as integers in hundredths (10000 is 100.00)
NoError == ""

FetchError == "fetch failed"

\* fetcher.StockData
StockData(symbol, err, price, closes, highs, lows) ==
    [Symbol |-> symbol, Error |-> err, Price |-> price,
     PERatio |-> 0, EPS |-> 0, BookValue |-> 0,
     HistoricalPrices |-> closes, HistoricalHighs |-> highs,
     HistoricalLows |-> lows, HistoricalCloses |-> closes]

\* the bars the upstream serves: fifteen rising daily closes
Bars == [i \in 1..15 |-> 10000 + 100 * (i - 1)]

\* what the upstream answers to one FetchComplete call: each of the two
\* requests fails or not, and the symbol comes back as asked or upper-cased
Outcomes == [quoteErr : BOOLEAN, histErr : BOOLEAN, upper : BOOLEAN]

FetchQuote(symbol, o) ==
    IF o.quoteErr
    THEN [data |-> StockData("", NoError, 0, <<>>, <<>>, <<>>),
          err |-> FetchError]
    ELSE [data |-> StockData(IF o.upper THEN ToUpper(symbol) ELSE symbol,
                             NoError, 10000, <<>>, <<>>, <<>>),
          err |-> NoError]

FetchHistorical(symbol, o) ==
    IF o.histErr
    THEN [data |-> StockData("", NoError, 0, <<>>, <<>>, <<>>),
          err |-> FetchError]
    ELSE [data |-> StockData(symbol, NoError, 0, Bars,
                             [i \in 1..15 |-> Bars[i] + 50],
                             [i \in 1..15 |-> Bars[i] - 50]),
          err |-> NoError]

\* a FetchComplete whose error result does not name the symbol
FetchCompleteNoSymbol(symbol, o) ==
    LET q == FetchQuote(symbol, o)
        h == FetchHistorical(symbol, o)
    IN IF q.err # NoError
       THEN [data |-> StockData("", q.err, 0, <<>>, <<>>, <<>>),
             err |-> NoError]
       ELSE IF h.err = NoError
       THEN [data |-> [q.data EXCEPT
                         !.HistoricalPrices = h.data.HistoricalPrices,
                         !.HistoricalCloses = h.data.HistoricalCloses,
                         !.HistoricalHighs = h.data.HistoricalHighs,
                         !.HistoricalLows = h.data.HistoricalLows],
             err |-> NoError]
       ELSE [data |-> q.data, err |-> NoError]

FetchComplete(symbol, o) ==
    LET q == FetchQuote(symbol, o)
        h == FetchHistorical(symbol, o)
    IN IF q.err # NoError
       THEN [data |-> StockData(symbol, q.err, 0, <<>>, <<>>, <<>>),
             err |-> NoError]
       ELSE IF h.err = NoError
       THEN [data |-> [q.data EXCEPT
                         !.HistoricalPrices = h.data.HistoricalPrices,
                         !.HistoricalCloses = h.data.HistoricalCloses,
                         !.HistoricalHighs = h.data.HistoricalHighs,
                         !.HistoricalLows = h.data.HistoricalLows],
             err |-> NoError]
       ELSE [data |-> q.data, err |-> NoError]

\* ---- internal/analysis ----
Max(a, b) == IF a >= b THEN a ELSE b

Abs(a) == IF a >= 0 THEN a ELSE -a

\* math.Round of n/d for n >= 0, d > 0
RoundDiv(n, d) == (2 * n + d) \div (2 * d)

\* the largest r in lo..hi with r * r <= n, by bisection
RECURSIVE SqrtIn(_, _, _)
SqrtIn(n, lo, hi) ==
    IF lo = hi THEN lo
    ELSE IF ((lo + hi + 1) \div 2) * ((lo + hi + 1) \div 2) > n
    THEN SqrtIn(n, lo, (lo + hi + 1) \div 2 - 1)
    ELSE SqrtIn(n, (lo + hi + 1) \div 2, hi)

\* F applied to the value of e, which is computed once
Then(e, F(_)) == CHOOSE y \in {F(x) : x \in {e}} : TRUE

\* math.Sqrt, rounded down
Sqrt(n) == Then(n, LAMBDA x : SqrtIn(x, 0, 46340))

RECURSIVE Sum(_, _, _)
Sum(f, lo, hi) == IF lo > hi THEN 0 ELSE f[lo] + Sum(f, lo + 1, hi)

\* the running averages of RSI and ATR are held in thousandths of a
\* hundredth, which keeps every product within 32 bits
Scale == 1000

\* Wilder's smoothing of the average avg over the values v[from..Len(v)]:
\* avg = (avg*(period-1) + v[i]) / period
RECURSIVE Wilder(_, _, _, _)
Wilder(avg, v, from, period) ==
    IF from > Len(v) THEN avg
    ELSE Wilder((avg * (period - 1) + v[from] * Scale) \div period,
                v, from + 1, period)

\* 10000 * a / t rounded down, for 0 <= a <= t, in two steps of two digits so
\* that no product leaves 32 bits
Share(a, t) == 100 * ((100 * a) \div t) + (100 * ((100 * a) % t)) \div t

\* an RSI that reports the share of the losses instead of the gains
RSIOfLosses(prices, period) ==
    IF Len(prices) < period + 1 THEN 5000
    ELSE LET change == [i \in 1..(Len(prices) - 1) |-> prices[i + 1] - prices[i]]
             up == [i \in 1..Len(change) |-> IF change[i] > 0 THEN change[i] ELSE 0]
             down == [i \in 1..Len(change) |-> IF change[i] > 0 THEN 0 ELSE Abs(change[i])]
             avgGain == Wilder((Sum(up, 1, period) * Scale) \div period,
                               up, period + 1, period)
             avgLoss == Wilder((Sum(down, 1, period) * Scale) \div period,
                               down, period + 1, period)
         IN IF avgLoss = 0 THEN 10000
            ELSE Share(avgLoss, avgLoss + avgGain)

RSI(prices, period) ==
    IF Len(prices) < period + 1 THEN 5000
    ELSE LET change == [i \in 1..(Len(prices) - 1) |-> prices[i + 1] - prices[i]]
             up == [i \in 1..Len(change) |-> IF change[i] > 0 THEN change[i] ELSE 0]
             down == [i \in 1..Len(change) |-> IF change[i] > 0 THEN 0 ELSE Abs(change[i])]
             avgGain == Wilder((Sum(up, 1, period) * Scale) \div period,
                               up, period + 1, period)
             avgLoss == Wilder((Sum(down, 1, period) * Scale) \div period,
                               down, period + 1, period)
         IN IF avgLoss = 0 THEN 10000
            ELSE 10000 - Share(avgLoss, avgLoss + avgGain)

IsOversold(rsi, threshold) == rsi < threshold

ATR(high, low, close, period) ==
    IF Len(high) < period + 1 \/ Len(low) < period + 1 \/ Len(close) < period + 1
    THEN 0
    ELSE LET trueRanges == [i \in 1..Len(high) |->
                 IF i = 1 THEN high[1] - low[1]
                 ELSE Max(high[i] - low[i],
                          Max(Abs(high[i] - close[i - 1]),
                              Abs(low[i] - close[i - 1])))]
             atr == Wilder((Sum(trueRanges, 1, period) * Scale) \div period,
                           trueRanges, period + 1, period)
         IN atr \div Scale

SMA(prices, period) ==
    IF Len(prices) < period THEN 0
    ELSE Sum(prices, Len(prices) - period + 1, Len(prices)) \div period

PBV(price, bookValuePerShare) == (price * 100) \div bookValuePerShare

GrahamNumber(eps, bookValuePerShare) ==
    IF eps <= 0 \/ bookValuePerShare <= 0 THEN 0
    ELSE Sqrt((225 * eps * bookValuePerShare) \div 10)

GrahamUpside(price, grahamNumber) ==
    IF grahamNumber <= 0 \/ price <= 0 THEN 0
    ELSE ((grahamNumber - price) * 10000) \div price

IsUndervalued(pbv, grahamUpside) == pbv < 150 /\ grahamUpside > 2000

ValuationScore(pbv, grahamUpside, peRatio) ==
    (IF pbv < 50 THEN 3500 ELSE IF pbv < 100 THEN 3000
     ELSE IF pbv < 150 THEN 2500 ELSE IF pbv < 200 THEN 1500
     ELSE IF pbv < 300 THEN 500 ELSE 0)
    + (IF grahamUpside > 5000 THEN 3500 ELSE IF grahamUpside > 3000 THEN 3000
       ELSE IF grahamUpside > 2000 THEN 2500 ELSE IF grahamUpside > 1000 THEN 1500
       ELSE IF grahamUpside > 0 THEN 500 ELSE 0)
    + (IF peRatio < 1000 THEN 3000 ELSE IF peRatio < 1500 THEN 2500
       ELSE IF peRatio < 2000 THEN 2000 ELSE IF peRatio < 2500 THEN 1000 ELSE 0)

\* a CalculateSLTP that takes the ATR as it comes, without the 2% default
CalculateSLTPNoDefault(currentPrice, atr0, slMultiplier, tpMultiplier) ==
    LET atr == atr0
        sl == currentPrice - atr * slMultiplier
        tp == currentPrice + atr * tpMultiplier
    IN [StopLoss |-> sl, TakeProfit |-> tp,
        RiskRatio |-> IF currentPrice > 0 /\ currentPrice - sl > 0
                      THEN RoundDiv(100 * (tp - currentPrice), currentPrice - sl)
                      ELSE 0]

\* a zero price makes the percentages 0/0, which compare false with > 0
CalculateSLTP(currentPrice, atr0, slMultiplier, tpMultiplier) ==
    LET atr == IF atr0 <= 0 THEN (currentPrice * 2) \div 100 ELSE atr0
        sl == currentPrice - atr * slMultiplier
        tp == currentPrice + atr * tpMultiplier
    IN [StopLoss |-> sl, TakeProfit |-> tp,
        RiskRatio |-> IF currentPrice > 0 /\ currentPrice - sl > 0
                      THEN RoundDiv(100 * (tp - currentPrice), currentPrice - sl)
                      ELSE 0]

\* daily returns in 1/10000, their deviation annualised by sqrt(252)
Volatility(prices) ==
    IF Len(prices) < 2 THEN 0
    ELSE LET n == Len(prices) - 1
             returns == [i \in 1..n |->
                            ((prices[i + 1] - prices[i]) * 10000) \div prices[i]]
             mean == Sum(returns, 1, n) \div n
             sq == [i \in 1..n |-> (returns[i] - mean) * (returns[i] - mean)]
             variance == Sum(sq, 1, n) \div n
         IN (Sqrt(variance) * 158745) \div 10000

\* ---- internal/screener: scoring ----
\* screener.ScreenResult, zero-valued
ZeroResult ==
    [Symbol |-> "", Name |-> "", Price |-> 0, RSI |-> 0, ATR |-> 0, SMA20 |-> 0,
     PBV |-> 0, PERatio |-> 0, EPS |-> 0, BookValue |-> 0, GrahamNumber |-> 0,
     GrahamUpside |-> 0, StopLoss |-> 0, TakeProfit |-> 0, RiskRatio |-> 0,
     Volatility |-> 0, TechnicalScore |-> 0, ValuationScore |-> 0,
     RiskScore |-> 0, ConfluenceScore |-> 0, IsOversold |-> FALSE,
     IsUndervalued |-> FALSE, IsPinned |-> FALSE, HasError |-> FALSE,
     ErrorMessage |-> ""]

\* a technical score that scores an RSI of 0 as the deepest oversold
calculateTechnicalScoreAnyRSI(r) ==
    (IF r.RSI < 2500 THEN 5000 ELSE IF r.RSI < 3000 THEN 4500
     ELSE IF r.RSI < 3500 THEN 4000 ELSE IF r.RSI < 4000 THEN 3000
     ELSE IF r.RSI < 5000 THEN 2000 ELSE IF r.RSI < 6000 THEN 1000 ELSE 0)
    + (IF r.SMA20 > 0 /\ r.Price < r.SMA20
       THEN IF (r.SMA20 - r.Price) * 100 > 10 * r.SMA20 THEN 3000
            ELSE IF (r.SMA20 - r.Price) * 100 > 5 * r.SMA20 THEN 2000
            ELSE 1000
       ELSE 0)
    + (IF r.RiskRatio >= 300 THEN 2000 ELSE IF r.RiskRatio >= 200 THEN 1500
       ELSE IF r.RiskRatio >= 150 THEN 1000 ELSE IF r.RiskRatio >= 100 THEN 500
       ELSE 0)

calculateTechnicalScore(r) ==
    (IF r.RSI > 0
     THEN IF r.RSI < 2500 THEN 5000 ELSE IF r.RSI < 3000 THEN 4500
          ELSE IF r.RSI < 3500 THEN 4000 ELSE IF r.RSI < 4000 THEN 3000
          ELSE IF r.RSI < 5000 THEN 2000 ELSE IF r.RSI < 6000 THEN 1000 ELSE 0
     ELSE 0)
    + (IF r.SMA20 > 0 /\ r.Price < r.SMA20
       THEN IF (r.SMA20 - r.Price) * 100 > 10 * r.SMA20 THEN 3000
            ELSE IF (r.SMA20 - r.Price) * 100 > 5 * r.SMA20 THEN 2000
            ELSE 1000
       ELSE 0)
    + (IF r.RiskRatio >= 300 THEN 2000 ELSE IF r.RiskRatio >= 200 THEN 1500
       ELSE IF r.RiskRatio >= 150 THEN 1000 ELSE IF r.RiskRatio >= 100 THEN 500
       ELSE 0)

calculateRiskAdjustedScore(r) ==
    IF r.Volatility < 2000 THEN 10000 ELSE IF r.Volatility < 3000 THEN 8000
    ELSE IF r.Volatility < 4000 THEN 6000 ELSE IF r.Volatility < 5000 THEN 4000
    ELSE IF r.Volatility < 6000 THEN 2000 ELSE 1000

\* a confluence score without the cap: score + bonusPoints as it stands
calculateConfluenceScoreNoCap(r) ==
    (r.TechnicalScore * 30 + r.ValuationScore * 40 + r.RiskScore * 30) \div 100
    + (IF r.IsOversold /\ r.IsUndervalued THEN 1000 ELSE 0)
    + (IF r.PBV > 0 /\ r.PBV < 100 THEN 500 ELSE 0)
    + (IF r.GrahamUpside > 5000 THEN 500 ELSE 0)
    + (IF r.RiskRatio >= 250 THEN 500 ELSE 0)

\* a confluence score whose low-PBV bonus also goes to an unset PBV of 0
calculateConfluenceScoreAnyPBV(r) ==
    LET score == (r.TechnicalScore * 30 + r.ValuationScore * 40
                  + r.RiskScore * 30) \div 100
        bonusPoints ==
            (IF r.IsOversold /\ r.IsUndervalued THEN 1000 ELSE 0)
            + (IF r.PBV < 100 THEN 500 ELSE 0)
            + (IF r.GrahamUpside > 5000 THEN 500 ELSE 0)
            + (IF r.RiskRatio >= 250 THEN 500 ELSE 0)
    IN IF score + bonusPoints < 10000 THEN score + bonusPoints ELSE 10000

calculateConfluenceScore(r) ==
    LET score == (r.TechnicalScore * 30 + r.ValuationScore * 40
                  + r.RiskScore * 30) \div 100
        bonusPoints ==
            (IF r.IsOversold /\ r.IsUndervalued THEN 1000 ELSE 0)
            + (IF r.PBV > 0 /\ r.PBV < 100 THEN 500 ELSE 0)
            + (IF r.GrahamUpside > 5000 THEN 500 ELSE 0)
            + (IF r.RiskRatio >= 250 THEN 500 ELSE 0)
    IN IF score + bonusPoints < 10000 THEN score + bonusPoints ELSE 10000

\* CalculateMetrics, the indicators: RSI to Volatility
Indicators(data, r0) ==
    LET rsi == IF Len(data.HistoricalPrices) > 14
               THEN RSI(data.HistoricalPrices, 14) ELSE 0
        atr == IF Len(data.HistoricalHighs) > 14
               THEN ATR(data.HistoricalHighs, data.HistoricalLows,
                        data.HistoricalCloses, 14)
               ELSE 0
        pbv == IF data.BookValue > 0 THEN PBV(data.Price, data.BookValue) ELSE 0
        gn == IF data.EPS > 0 /\ data.BookValue > 0
              THEN GrahamNumber(data.EPS, data.BookValue) ELSE 0
        gu == IF data.EPS > 0 /\ data.BookValue > 0
              THEN GrahamUpside(data.Price, gn) ELSE 0
        risk == CalculateSLTP(data.Price, atr, 2, 3)
    IN [r0 EXCEPT
          !.RSI = rsi,
          !.IsOversold = Len(data.HistoricalPrices) > 14
                         /\ IsOversold(rsi, 3500),
          !.ATR = atr,
          !.SMA20 = IF Len(data.HistoricalPrices) >= 20
                    THEN SMA(data.HistoricalPrices, 20) ELSE 0,
          !.PBV = pbv, !.GrahamNumber = gn, !.GrahamUpside = gu,
          !.IsUndervalued = IsUndervalued(pbv, gu),
          !.StopLoss = risk.StopLoss, !.TakeProfit = risk.TakeProfit,
          !.RiskRatio = risk.RiskRatio,
          !.Volatility = IF Len(data.HistoricalPrices) > 10
                         THEN Volatility(data.HistoricalPrices) ELSE 0]

\* CalculateMetrics, the three scores
Scores(r) ==
    [r EXCEPT !.TechnicalScore = calculateTechnicalScore(r),
              !.ValuationScore = ValuationScore(r.PBV, r.GrahamUpside, r.PERatio),
              !.RiskScore = calculateRiskAdjustedScore(r)]

\* CalculateMetrics, the confluence score of the scored result
Confluence(r) == [r EXCEPT !.ConfluenceScore = calculateConfluenceScore(r)]

\* a CalculateMetrics that flags the error and goes on to the indicators
CalculateMetricsNoReturn(data) ==
    LET r0 == [ZeroResult EXCEPT !.Symbol = data.Symbol, !.Price = data.Price,
                                 !.PERatio = data.PERatio, !.EPS = data.EPS,
                                 !.BookValue = data.BookValue,
                                 !.HasError = data.Error # NoError,
                                 !.ErrorMessage = data.Error]
    IN Then(Then(Indicators(data, r0), Scores), Confluence)

CalculateMetrics(data) ==
    LET r0 == [ZeroResult EXCEPT !.Symbol = data.Symbol, !.Price = data.Price,
                                 !.PERatio = data.PERatio, !.EPS = data.EPS,
                                 !.BookValue = data.BookValue]
    IN IF data.Error # NoError
       THEN [r0 EXCEPT !.HasError = TRUE, !.ErrorMessage = data.Error]
       ELSE Then(Then(Indicators(data, r0), Scores), Confluence)

\* ---- internal/screener: filter criteria ----
DefaultCriteria ==
    [MinRSI |-> 0, MaxRSI |-> 4000, MaxPBV |-> 200, MinGrahamUpside |-> 0,
     MinConfluence |-> 5000, OnlyOversold |-> FALSE, OnlyUndervalued |-> FALSE]

\* the criteria of TestScan_All_Subset: nothing fetched is rejected
RelaxedCriteria ==
    [DefaultCriteria EXCEPT !.MaxRSI = 10000, !.MaxPBV = 10000,
                            !.MinGrahamUpside = -100000, !.MinConfluence = 0]

\* criteria no result can meet: a confluence score is at most 100
RejectAllCriteria == [DefaultCriteria EXCEPT !.MinConfluence = 10100]

CriteriaSet == {DefaultCriteria, RelaxedCriteria, RejectAllCriteria}

\* a filter without the HasError test
passesFilterNoErrorTest(r, c) ==
    IF (r.RSI < c.MinRSI \/ r.RSI > c.MaxRSI) /\ r.RSI > 0 THEN FALSE
    ELSE IF r.PBV > c.MaxPBV /\ r.PBV > 0 THEN FALSE
    ELSE IF r.GrahamUpside < c.MinGrahamUpside THEN FALSE
    ELSE IF r.ConfluenceScore < c.MinConfluence THEN FALSE
    ELSE IF c.OnlyOversold /\ ~r.IsOversold THEN FALSE
    ELSE IF c.OnlyUndervalued /\ ~r.IsUndervalued THEN FALSE
    ELSE TRUE

\* a filter that holds an RSI of 0 to the range as well
passesFilterStrictRSI(r, c) ==
    IF r.HasError THEN FALSE
    ELSE IF r.RSI < c.MinRSI \/ r.RSI > c.MaxRSI THEN FALSE
    ELSE IF r.PBV > c.MaxPBV /\ r.PBV > 0 THEN FALSE
    ELSE IF r.GrahamUpside < c.MinGrahamUpside THEN FALSE
    ELSE IF r.ConfluenceScore < c.MinConfluence THEN FALSE
    ELSE IF c.OnlyOversold /\ ~r.IsOversold THEN FALSE
    ELSE IF c.OnlyUndervalued /\ ~r.IsUndervalued THEN FALSE
    ELSE TRUE

passesFilter(r, c) ==
    IF r.HasError THEN FALSE
    ELSE IF (r.RSI < c.MinRSI \/ r.RSI > c.MaxRSI) /\ r.RSI > 0 THEN FALSE
    ELSE IF r.PBV > c.MaxPBV /\ r.PBV > 0 THEN FALSE
    ELSE IF r.GrahamUpside < c.MinGrahamUpside THEN FALSE
    ELSE IF r.ConfluenceScore < c.MinConfluence THEN FALSE
    ELSE IF c.OnlyOversold /\ ~r.IsOversold THEN FALSE
    ELSE IF c.OnlyUndervalued /\ ~r.IsUndervalued THEN FALSE
    ELSE TRUE

VARIABLES
    workers,    \* p.workers
    gen,        \* which run's ctx / symbols / results the pool fields hold
    ctxDone,    \* ctxDone[g]: the context of run g is cancelled; run 0 is
                \* the context NewWorkerPool made
    symCh,      \* symCh[g]: the work queue made by run g
    resCh,      \* resCh[g]: the result stream made by run g
    wg,         \* counter of p.wg
    runSyms,    \* runSyms[g]: the symbols argument of run g
    wk,         \* wk[g]: the workers spawned by run g that have not returned
    feeder,     \* feeder[g]: the goroutine feeding the work queue
    closer,     \* closer[g]: the goroutine closing the result stream
    scan,       \* scan[g]: the caller ranging over the stream of run g
    panicked,   \* runtime panic message, "" while the program runs
    watchlist,  \* Manager.symbols: the pinned symbols, upper case
    criteria,   \* e.criteria
    results,    \* e.results
    successCount, errorCount, lastError, errorSymbol,  \* e's scan counters
    notified,   \* notified[g]: the calls the caller of run g made to its
                \* progress callback, oldest first
    disk,       \* the symbols stored in the watchlist file
    got,        \* the slice a reader was handed by GetResults
    call,       \* the engine call the user interface made last, and its error
    rateLimiter,  \* c.rateLimiter: the ticks fired and the tick buffered in C
    mu,         \* c.mu is locked
    requests,   \* the number of calls of c.httpClient.Do
    arg,        \* the function under study and the arguments it is given
    ret,        \* what that function returned
    alertObjs,  \* the Alert values allocated so far, in order
    alerts,     \* m.alerts: alert ID to the Alert it points to
    symbolAlerts,     \* m.symbolAlerts: symbol to the Alerts it points to
    triggeredAlerts,  \* m.triggeredAlerts
    alertsFile, \* the Alert values stored in the alerts file
    now         \* time.Now(), in milliseconds

poolVars == <<workers, gen, ctxDone, symCh, resCh, wg, runSyms, wk, feeder,
              closer>>

engineVars == <<watchlist, criteria, results, successCount, errorCount,
                lastError, errorSymbol, notified, disk, got, call>>

clientVars == <<rateLimiter, mu, requests>>

callVars == <<arg, ret>>

alertVars == <<alertObjs, alerts, symbolAlerts, triggeredAlerts, alertsFile,
               now>>

\* what the pool and the engine leave alone when the fetch is one step
asideVars == <<clientVars, callVars, alertVars>>

vars == <<poolVars, scan, panicked, engineVars, asideVars>>

NoChan == [buf |-> <<>>, closed |-> FALSE, cap |-> 0]

NoFeeder == [pc |-> "none", i |-> 1, since |-> 0]

NoCaller == [pc |-> "none", recv |-> EmptyBag, ret |-> <<>>]

\* NewDirectYahooClient: time.NewTicker has not fired yet, nothing is
\* buffered in its channel C (capacity 1), the mutex is unlocked
NewDirectYahooClient ==
    /\ rateLimiter = [ticks |-> 0, C |-> 0]
    /\ mu = FALSE
    /\ requests = 0

NewWorkerPool(n) ==
    /\ workers = n
    /\ NewDirectYahooClient
    /\ gen = 0
    /\ ctxDone = [g \in 0..MaxStarts |-> FALSE]
    /\ symCh = [g \in Gens |-> NoChan]
    /\ resCh = [g \in Gens |-> NoChan]
    /\ wg = 0
    /\ runSyms = [g \in Gens |-> <<>>]
    /\ wk = [g \in Gens |-> EmptyBag]
    /\ feeder = [g \in Gens |-> NoFeeder]
    /\ closer = [g \in Gens |-> "none"]

UpperTickers == {ToUpper(t) : t \in Tickers}

\* NewEngine: the pool, the watchlist as loaded from disk (Load upper-cases
\* every symbol; the file is one saveUnsafe wrote), the default criteria, no
\* results
NewEngine(n) ==
    /\ NewWorkerPool(n)
    /\ watchlist \in SUBSET UpperTickers
    /\ disk = watchlist
    /\ criteria = DefaultCriteria
    /\ results = <<>>
    /\ successCount = 0
    /\ errorCount = 0
    /\ lastError = ""
    /\ errorSymbol = ""

\* no reader holds a slice yet
NoSlice == [array |-> "none", rows |-> <<>>]

\* the user interface has not called the engine yet
NoCall == [op |-> "none", symbol |-> "", err |-> FALSE]

\* no function is under study
NoArg == [fn |-> "none"]

NoRet == [fn |-> "none"]

\* no alert ID is in use
EmptyMap == [id \in {} |-> 0]

\* alerts.NewManager, with no alerts file to load
NewAlertsManager ==
    /\ alertObjs = <<>>
    /\ alerts = EmptyMap
    /\ symbolAlerts = [symbol \in UpperTickers |-> <<>>]
    /\ triggeredAlerts = <<>>
    /\ alertsFile = {}
    /\ now = 0

\* the program after NewEngine
Constructed ==
    /\ \E n \in 1..MaxWorkers : NewEngine(n)
    /\ scan = [g \in Gens |-> NoCaller]
    /\ notified = [g \in Gens |-> <<>>]
    /\ got = NoSlice
    /\ call = NoCall
    /\ panicked = ""
    /\ NewAlertsManager

Init ==
    /\ Constructed
    /\ arg = NoArg
    /\ ret = NoRet

Running == panicked = ""

\* the runs whose ctx / channels a goroutine may be selecting on: it read
\* the pool fields at some moment since it arrived at the select
SelGens(since) == {G \in Gens : since <= G /\ G <= gen}

\* ---- WorkerPool.Start ----
\* p.symbols = make(chan string, len(symbols))
NewSymbols(symbols) == [buf |-> <<>>, closed |-> FALSE, cap |-> Len(symbols)]

\* a results channel one slot short of the symbol count
NewResultsShort(symbols) ==
    [buf |-> <<>>, closed |-> FALSE, cap |-> Len(symbols) - 1]

\* p.results = make(chan *StockData, len(symbols))
NewResults(symbols) == [buf |-> <<>>, closed |-> FALSE, cap |-> Len(symbols)]

\* a Start that keeps the context the pool holds instead of making a new
\* one: the new run inherits a cancellation issued before it
StartKeepsContext(symbols) ==
    /\ gen < MaxStarts
    /\ ctxDone' = [g \in 0..MaxStarts |->
                     IF g = gen + 1 THEN ctxDone[gen] ELSE ctxDone[g]]
    /\ gen' = gen + 1
    /\ wg' = workers
    /\ symCh' = [symCh EXCEPT ![gen + 1] = NewSymbols(symbols)]
    /\ resCh' = [resCh EXCEPT ![gen + 1] = NewResults(symbols)]
    /\ runSyms' = [runSyms EXCEPT ![gen + 1] = symbols]
    /\ wk' = [wk EXCEPT ![gen + 1] =
                 [w \in {[pc |-> "select", since |-> gen + 1, symbol |-> ""]}
                    |-> workers]]
    /\ feeder' = [feeder EXCEPT ![gen + 1] =
                     [pc |-> "feed", i |-> 1, since |-> gen + 1]]
    /\ closer' = [closer EXCEPT ![gen + 1] = "wait"]

\* if p.cancel != nil { p.cancel() }: the previous run's context is cancelled
Start(symbols) ==
    /\ gen < MaxStarts
    /\ ctxDone' = [g \in 0..MaxStarts |-> ctxDone[g] \/ g = gen]
    /\ gen' = gen + 1
    /\ wg' = workers
    /\ symCh' = [symCh EXCEPT ![gen + 1] = NewSymbols(symbols)]
    /\ resCh' = [resCh EXCEPT ![gen + 1] = NewResults(symbols)]
    /\ runSyms' = [runSyms EXCEPT ![gen + 1] = symbols]
    /\ wk' = [wk EXCEPT ![gen + 1] =
                 [w \in {[pc |-> "select", since |-> gen + 1, symbol |-> ""]}
                    |-> workers]]
    /\ feeder' = [feeder EXCEPT ![gen + 1] =
                     [pc |-> "feed", i |-> 1, since |-> gen + 1]]
    /\ closer' = [closer EXCEPT ![gen + 1] = "wait"]

\* ---- WorkerPool.Stop ----
\* if p.cancel != nil { p.cancel() }: p.cancel is never nil, NewWorkerPool
\* sets it; before the first Start this cancels the constructor's context
\* (run 0), which no goroutine reads; cancelling a cancelled context changes
\* nothing
Stop ==
    /\ Running
    /\ ~ctxDone[gen]
    /\ ctxDone' = [ctxDone EXCEPT ![gen] = TRUE]
    /\ UNCHANGED <<workers, gen, symCh, resCh, wg, runSyms, wk, feeder,
                   closer, scan, panicked, engineVars, asideVars>>

\* ---- WorkerPool.worker ----
\* worker w of run g goes on as w2
Becomes(g, w, w2) ==
    wk' = [wk EXCEPT ![g] = (@ (-) SetToBag({w})) (+) SetToBag({w2})]

\* a worker that returns without p.wg.Done()
WorkerExitNoDone(g, w) ==
    /\ wk' = [wk EXCEPT ![g] = @ (-) SetToBag({w})]
    /\ UNCHANGED <<wg, panicked>>

\* return, with the deferred p.wg.Done(): the counter is the one at &p.wg,
\* whichever run set it
WorkerExit(g, w) ==
    /\ wk' = [wk EXCEPT ![g] = @ (-) SetToBag({w})]
    /\ wg' = wg - 1
    /\ panicked' = IF wg - 1 < 0 THEN "sync: negative WaitGroup counter"
                   ELSE panicked

\* select { case <-p.ctx.Done(): return; case symbol, ok := <-p.symbols: }
WorkerSelectDone(g, w) ==
    /\ Running
    /\ w.pc = "select"
    /\ \E G \in SelGens(w.since) : ctxDone[G]
    /\ WorkerExit(g, w)
    /\ UNCHANGED <<workers, gen, ctxDone, symCh, resCh, runSyms, feeder,
                   closer, scan, engineVars, asideVars>>

WorkerTake(g, w) ==
    /\ Running
    /\ w.pc = "select"
    /\ \E G \in SelGens(w.since) :
         /\ symCh[G].buf # <<>>
         /\ symCh' = [symCh EXCEPT ![G].buf = Tail(@)]
         /\ Becomes(g, w, [pc |-> "fetch", since |-> gen,
                           symbol |-> Head(symCh[G].buf)])
    /\ UNCHANGED <<workers, gen, ctxDone, resCh, wg, runSyms, feeder,
                   closer, scan, panicked, engineVars, asideVars>>

\* symbol, ok := <-p.symbols; if !ok { return }
WorkerQueueClosed(g, w) ==
    /\ Running
    /\ w.pc = "select"
    /\ \E G \in SelGens(w.since) :
         /\ symCh[G].buf = <<>>
         /\ symCh[G].closed
    /\ WorkerExit(g, w)
    /\ UNCHANGED <<workers, gen, ctxDone, symCh, resCh, runSyms, feeder,
                   closer, scan, engineVars, asideVars>>

\* data, err := p.client.FetchComplete(p.ctx, symbol)
\* if err != nil { data = &StockData{Symbol: symbol, Error: err} }
Fetched(symbol, o) ==
    LET r == FetchComplete(symbol, o)
    IN IF r.err # NoError
       THEN StockData(symbol, r.err, 0, <<>>, <<>>, <<>>)
       ELSE r.data

\* the fetch has returned:
\* select { case <-p.ctx.Done(): return; case p.results <- data: }
WorkerSendDone(g, w) ==
    /\ Running
    /\ w.pc = "fetch"
    /\ \E G \in SelGens(w.since) : ctxDone[G]
    /\ WorkerExit(g, w)
    /\ UNCHANGED <<workers, gen, ctxDone, symCh, resCh, runSyms, feeder,
                   closer, scan, engineVars, asideVars>>

\* req and by record where a result comes from: the symbol the worker was
\* given and the run that spawned the worker
WorkerSend(g, w) ==
    /\ Running
    /\ w.pc = "fetch"
    /\ \E G \in SelGens(w.since) :
         \/ /\ resCh[G].closed
            /\ panicked' = "send on closed channel"
            /\ UNCHANGED <<resCh, wk>>
         \/ /\ ~resCh[G].closed
            /\ Len(resCh[G].buf) < resCh[G].cap
            /\ \E o \in Outcomes :
                 resCh' = [resCh EXCEPT ![G].buf =
                    Append(@, [data |-> Fetched(w.symbol, o),
                               req |-> w.symbol, by |-> g])]
            /\ Becomes(g, w, [pc |-> "select", since |-> gen, symbol |-> ""])
            /\ UNCHANGED panicked
    /\ UNCHANGED <<workers, gen, ctxDone, symCh, wg, runSyms, feeder,
                   closer, scan, engineVars, asideVars>>

worker(g, w) ==
    \/ WorkerSelectDone(g, w)
    \/ WorkerTake(g, w)
    \/ WorkerQueueClosed(g, w)
    \/ WorkerSendDone(g, w)
    \/ WorkerSend(g, w)

\* ---- the feeding goroutine of Start ----
\* for _, sym := range symbols { select { case <-p.ctx.Done(): break
\*                                        case p.symbols <- sym: } }
\* the break leaves the select only, the loop goes on to the next symbol.
\* FeederSkipAnyTime is a feeder that may pass over a symbol with the context
\* still live.
FeederSkipAnyTime(g) ==
    /\ Running
    /\ feeder[g].pc = "feed"
    /\ feeder[g].i <= Len(runSyms[g])
    /\ feeder' = [feeder EXCEPT ![g].i = @ + 1, ![g].since = gen]
    /\ UNCHANGED <<workers, gen, ctxDone, symCh, resCh, wg, runSyms, wk,
                   closer, scan, panicked, engineVars, asideVars>>

FeederSkip(g) ==
    /\ Running
    /\ feeder[g].pc = "feed"
    /\ feeder[g].i <= Len(runSyms[g])
    /\ \E G \in SelGens(feeder[g].since) : ctxDone[G]
    /\ feeder' = [feeder EXCEPT ![g].i = @ + 1, ![g].since = gen]
    /\ UNCHANGED <<workers, gen, ctxDone, symCh, resCh, wg, runSyms, wk,
                   closer, scan, panicked, engineVars, asideVars>>

FeederSend(g) ==
    /\ Running
    /\ feeder[g].pc = "feed"
    /\ feeder[g].i <= Len(runSyms[g])
    /\ \E G \in SelGens(feeder[g].since) :
         \/ /\ symCh[G].closed
            /\ panicked' = "send on closed channel"
            /\ UNCHANGED <<symCh, feeder>>
         \/ /\ ~symCh[G].closed
            /\ Len(symCh[G].buf) < symCh[G].cap
            /\ symCh' = [symCh EXCEPT ![G].buf =
                            Append(@, runSyms[g][feeder[g].i])]
            /\ feeder' = [feeder EXCEPT ![g].i = @ + 1, ![g].since = gen]
            /\ UNCHANGED panicked
    /\ UNCHANGED <<workers, gen, ctxDone, resCh, wg, runSyms, wk,
                   closer, scan, engineVars, asideVars>>

\* close(p.symbols)
FeederClose(g) ==
    /\ Running
    /\ feeder[g].pc = "feed"
    /\ feeder[g].i > Len(runSyms[g])
    /\ IF symCh[gen].closed
       THEN /\ panicked' = "close of closed channel"
            /\ UNCHANGED <<symCh, feeder>>
       ELSE /\ symCh' = [symCh EXCEPT ![gen].closed = TRUE]
            /\ feeder' = [feeder EXCEPT ![g] = [NoFeeder EXCEPT !.pc = "done"]]
            /\ UNCHANGED panicked
    /\ UNCHANGED <<workers, gen, ctxDone, resCh, wg, runSyms, wk,
                   closer, scan, engineVars, asideVars>>

Feeder(g) ==
    \/ FeederSkip(g)
    \/ FeederSend(g)
    \/ FeederClose(g)

\* ---- the closing goroutine of Start ----
\* CloserNoWait closes without p.wg.Wait()
CloserNoWait(g) ==
    /\ Running
    /\ closer[g] = "wait"
    /\ IF resCh[gen].closed
       THEN /\ panicked' = "close of closed channel"
            /\ UNCHANGED <<resCh, closer>>
       ELSE /\ resCh' = [resCh EXCEPT ![gen].closed = TRUE]
            /\ closer' = [closer EXCEPT ![g] = "done"]
            /\ UNCHANGED panicked
    /\ UNCHANGED <<workers, gen, ctxDone, symCh, wg, runSyms, wk,
                   feeder, scan, engineVars, asideVars>>

\* p.wg.Wait(); close(p.results)
Closer(g) ==
    /\ Running
    /\ closer[g] = "wait"
    /\ wg = 0
    /\ IF resCh[gen].closed
       THEN /\ panicked' = "close of closed channel"
            /\ UNCHANGED <<resCh, closer>>
       ELSE /\ resCh' = [resCh EXCEPT ![gen].closed = TRUE]
            /\ closer' = [closer EXCEPT ![g] = "done"]
            /\ UNCHANGED panicked
    /\ UNCHANGED <<workers, gen, ctxDone, symCh, wg, runSyms, wk,
                   feeder, scan, engineVars, asideVars>>

\* ---- WorkerPool.FetchAll ----
\* FetchAll up to the return of p.Start(symbols); ret is its results slice
FetchAllStart(symbols) ==
    /\ Running
    /\ Start(symbols)
    /\ scan' = [scan EXCEPT ![gen + 1] = [NoCaller EXCEPT !.pc = "collect"]]
    /\ UNCHANGED <<workers, panicked, engineVars, asideVars>>

\* one iteration of: for data := range resultChan, with p.onProgress set
FetchAllReceive(g) ==
    /\ Running
    /\ scan[g].pc = "collect"
    /\ resCh[g].buf # <<>>
    /\ \E m \in {Head(resCh[g].buf)} :
          /\ scan' = [scan EXCEPT
                         ![g].ret = Append(@, m.data),
                         ![g].recv = @ (+) SetToBag(
                             {[Symbol |-> m.data.Symbol,
                               Error |-> m.data.Error,
                               req |-> m.req, by |-> m.by]})]
          /\ notified' = [notified EXCEPT ![g] = Append(@,
                             [Completed |-> Len(scan[g].ret) + 1,
                              Total |-> Len(runSyms[g])])]
    /\ resCh' = [resCh EXCEPT ![g].buf = Tail(@)]
    /\ UNCHANGED <<workers, gen, ctxDone, symCh, wg, runSyms, wk, feeder,
                   closer, panicked, watchlist, criteria, results,
                   successCount, errorCount, lastError, errorSymbol, disk,
                   got, call, asideVars>>

\* a loop that ends as soon as nothing is buffered
FetchAllReturnEarly(g) ==
    /\ Running
    /\ scan[g].pc = "collect"
    /\ resCh[g].buf = <<>>
    /\ scan' = [scan EXCEPT ![g].pc = "collected"]
    /\ UNCHANGED <<poolVars, panicked, engineVars, asideVars>>

\* the stream is closed and drained: the loop ends, return results
FetchAllReturn(g) ==
    /\ Running
    /\ scan[g].pc = "collect"
    /\ resCh[g].buf = <<>>
    /\ resCh[g].closed
    /\ scan' = [scan EXCEPT ![g].pc = "collected"]
    /\ UNCHANGED <<poolVars, panicked, engineVars, asideVars>>

FetchAll(g) ==
    \/ FetchAllReceive(g)
    \/ FetchAllReturn(g)

\* ---- watchlist.Manager ----
IsPinned(symbol) == ToUpper(symbol) \in watchlist

\* ---- Engine ----
\* a SetCriteria that drops the rows the new criteria reject
SetCriteriaRefilter(c) ==
    /\ Running
    /\ \A g \in Gens : scan[g].pc \in {"none", "returned"}
    /\ c # criteria
    /\ criteria' = c
    /\ results' = SelectSeq(results,
                            LAMBDA r : r.IsPinned \/ passesFilter(r, c))
    /\ UNCHANGED <<poolVars, scan, panicked, watchlist, successCount,
                   errorCount, lastError, errorSymbol, notified, disk, got, call,
                   asideVars>>

\* SetCriteria writes e.criteria without the lock: it is called between scans
SetCriteria(c) ==
    /\ Running
    /\ \A g \in Gens : scan[g].pc \in {"none", "returned"}
    /\ c # criteria
    /\ criteria' = c
    /\ UNCHANGED <<poolVars, scan, panicked, watchlist, results, successCount,
                   errorCount, lastError, errorSymbol, notified, disk, got, call,
                   asideVars>>

\* Scan, up to the return of e.pool.Start(symbols)
ScanStart(symbols) ==
    /\ Running
    /\ results' = <<>>
    /\ successCount' = 0
    /\ errorCount' = 0
    /\ lastError' = ""
    /\ errorSymbol' = ""
    /\ Start(symbols)
    /\ scan' = [scan EXCEPT ![gen + 1] = [NoCaller EXCEPT !.pc = "range"]]
    /\ UNCHANGED <<workers, panicked, watchlist, criteria, notified, disk,
                   got, call, asideVars>>

\* result := CalculateMetrics(data): a pure function, tabulated over the data
\* a worker can send
SentData == {Fetched(s, o) : s \in Tickers, o \in Outcomes}

Metrics == [data \in SentData |-> CalculateMetrics(data)]

\* a keep test that forgets the pinned rows
KeptByFilterOnly(result) == passesFilter(result, criteria)

\* if result.IsPinned || e.passesFilter(result)
Kept(result) == result.IsPinned \/ passesFilter(result, criteria)

\* a ScanProgress made before completed++
ScanProgressEarly(completed, total, current, success, errors, last, symbol) ==
    [Completed |-> completed - 1, Total |-> total, Current |-> current,
     SuccessCount |-> success, ErrorCount |-> errors, LastError |-> last,
     ErrorSymbol |-> symbol]

\* the ScanProgress handed to onProgressV2: the loop's own completed and
\* total, and the copies of the counters taken under the lock
ScanProgress(completed, total, current, success, errors, last, symbol) ==
    [Completed |-> completed, Total |-> total, Current |-> current,
     SuccessCount |-> success, ErrorCount |-> errors, LastError |-> last,
     ErrorSymbol |-> symbol]

\* a loop that empties the last-error slot when a result without error
\* comes in
ScanReceiveClearsError(g) ==
    /\ Running
    /\ scan[g].pc = "range"
    /\ resCh[g].buf # <<>>
    /\ \E m \in {Head(resCh[g].buf)} :
       \E result \in {[Metrics[m.data] EXCEPT
                          !.IsPinned = IsPinned(m.data.Symbol)]} :
          /\ IF m.data.Error # NoError
             THEN /\ errorCount' = errorCount + 1
                  /\ lastError' = m.data.Error
                  /\ errorSymbol' = m.data.Symbol
                  /\ UNCHANGED successCount
             ELSE /\ successCount' = successCount + 1
                  /\ lastError' = ""
                  /\ errorSymbol' = ""
                  /\ UNCHANGED errorCount
          /\ results' = IF Kept(result)
                        THEN Append(results, result)
                        ELSE results
          /\ scan' = [scan EXCEPT ![g].recv = @ (+) SetToBag(
                         {[Symbol |-> m.data.Symbol, Error |-> m.data.Error,
                           req |-> m.req, by |-> m.by]})]
          /\ notified' = [notified EXCEPT ![g] = Append(@,
                             ScanProgress(BagCardinality(scan[g].recv) + 1,
                                          Len(runSyms[g]), m.data.Symbol,
                                          successCount', errorCount',
                                          lastError', errorSymbol'))]
    /\ resCh' = [resCh EXCEPT ![g].buf = Tail(@)]
    /\ UNCHANGED <<workers, gen, ctxDone, symCh, wg, runSyms, wk, feeder,
                   closer, panicked, watchlist, criteria, disk, got, call,
                   asideVars>>

\* one iteration of: for data := range resultChan, with the verbose progress
\* callback installed.  recv holds what this caller has taken off the stream
ScanReceive(g) ==
    /\ Running
    /\ scan[g].pc = "range"
    /\ resCh[g].buf # <<>>
    /\ \E m \in {Head(resCh[g].buf)} :
       \E result \in {[Metrics[m.data] EXCEPT
                          !.IsPinned = IsPinned(m.data.Symbol)]} :
          /\ IF m.data.Error # NoError
             THEN /\ errorCount' = errorCount + 1
                  /\ lastError' = m.data.Error
                  /\ errorSymbol' = m.data.Symbol
                  /\ UNCHANGED successCount
             ELSE /\ successCount' = successCount + 1
                  /\ UNCHANGED <<errorCount, lastError, errorSymbol>>
          /\ results' = IF Kept(result)
                        THEN Append(results, result)
                        ELSE results
          /\ scan' = [scan EXCEPT ![g].recv = @ (+) SetToBag(
                         {[Symbol |-> m.data.Symbol, Error |-> m.data.Error,
                           req |-> m.req, by |-> m.by]})]
          /\ notified' = [notified EXCEPT ![g] = Append(@,
                             ScanProgress(BagCardinality(scan[g].recv) + 1,
                                          Len(runSyms[g]), m.data.Symbol,
                                          successCount', errorCount',
                                          lastError', errorSymbol'))]
    /\ resCh' = [resCh EXCEPT ![g].buf = Tail(@)]
    /\ UNCHANGED <<workers, gen, ctxDone, symCh, wg, runSyms, wk, feeder,
                   closer, panicked, watchlist, criteria, disk, got, call,
                   asideVars>>

\* the row addWatchlistPlaceholders and AddToWatchlist make for a symbol
PlaceholderRow(symbol) ==
    [ZeroResult EXCEPT !.Symbol = symbol, !.Name = symbol, !.IsPinned = TRUE]

\* the orders a Go map may be iterated in, or a slice be rearranged into
Perms(S) ==
    {f \in [1..Cardinality(S) -> S] : \A x \in S : \E i \in DOMAIN f : f[i] = x}

\* placeholders made for every watchlist symbol, present in rows or not
PlaceholdersForAll(rows) ==
    {[k \in 1..Len(watchlistSymbols) |->
            [ZeroResult EXCEPT !.Symbol = watchlistSymbols[k],
                               !.Name = watchlistSymbols[k],
                               !.IsPinned = TRUE]] :
        watchlistSymbols \in Perms(watchlist)}

\* an addWatchlistPlaceholders that adds nothing
PlaceholdersNone(rows) == {<<>>}

\* the placeholder rows addWatchlistPlaceholders appends to rows
Placeholders(rows) ==
    LET existing == {rows[k].Symbol : k \in 1..Len(rows)}
    IN {[k \in 1..Len(watchlistSymbols) |->
            [ZeroResult EXCEPT !.Symbol = watchlistSymbols[k],
                               !.Name = watchlistSymbols[k],
                               !.IsPinned = TRUE]] :
        watchlistSymbols \in Perms(watchlist \ existing)}

\* a less function that looks at the score only
LessByScore(a, b) == a.ConfluenceScore > b.ConfluenceScore

\* the less function of sortResults
Less(a, b) ==
    IF a.IsPinned /\ ~b.IsPinned THEN TRUE
    ELSE IF ~a.IsPinned /\ b.IsPinned THEN FALSE
    ELSE a.ConfluenceScore > b.ConfluenceScore

\* sort.Slice is not stable: any arrangement without inversions
Sorted(rows) ==
    {[k \in 1..Len(rows) |-> rows[f[k]]] : f \in
        {f \in Perms(1..Len(rows)) :
            \A i, j \in 1..Len(rows) : i < j => ~Less(rows[f[j]], rows[f[i]])}}

\* a Scan that discards its rows when its run was cancelled
ScanReturnRollback(g) ==
    /\ Running
    /\ scan[g].pc = "range"
    /\ resCh[g].buf = <<>>
    /\ resCh[g].closed
    /\ \E rows \in {IF ctxDone[g] THEN <<>> ELSE results} :
       \E ph \in Placeholders(rows) : results' \in Sorted(rows \o ph)
    /\ scan' = [scan EXCEPT ![g].pc = "returned", ![g].ret = results']
    /\ UNCHANGED <<poolVars, panicked, watchlist, criteria, successCount,
                   errorCount, lastError, errorSymbol, notified, disk, got,
                   call, asideVars>>

\* the stream is closed and drained: the loop ends, then
\* e.addWatchlistPlaceholders(); e.sortResults(); return e.GetResults()
ScanReturn(g) ==
    /\ Running
    /\ scan[g].pc = "range"
    /\ resCh[g].buf = <<>>
    /\ resCh[g].closed
    /\ \E ph \in Placeholders(results) : results' \in Sorted(results \o ph)
    /\ scan' = [scan EXCEPT ![g].pc = "returned", ![g].ret = results']
    /\ UNCHANGED <<poolVars, panicked, watchlist, criteria, successCount,
                   errorCount, lastError, errorSymbol, notified, disk, got, call,
                   asideVars>>

Scan(g) ==
    \/ ScanReceive(g)
    \/ ScanReturn(g)

\* no Scan call is inside its loop
Idle == \A g \in Gens : scan[g].pc # "range"

\* the index of the first row of rows that carries the symbol, 0 if none
Find(rows, symbol) ==
    IF \E k \in 1..Len(rows) : rows[k].Symbol = symbol
    THEN CHOOSE k \in 1..Len(rows) :
             /\ rows[k].Symbol = symbol
             /\ \A j \in 1..(k - 1) : rows[j].Symbol # symbol
    ELSE 0

\* a locked section that appends a placeholder without looking for a row
AlwaysAppend(rows, symbol) == Append(rows, PlaceholderRow(symbol))

\* AddToWatchlist, the locked section: the first row of the symbol is marked,
\* or a placeholder is appended
MarkOrAppend(rows, symbol) ==
    IF Find(rows, symbol) # 0
    THEN [rows EXCEPT ![Find(rows, symbol)].IsPinned = TRUE]
    ELSE Append(rows, PlaceholderRow(symbol))

\* Manager.Add puts the upper-cased symbol in the set and saves; saveUnsafe
\* may fail, and then AddToWatchlist returns the error at once
AddToWatchlist(symbol) ==
    /\ Running
    /\ watchlist' = watchlist \cup {ToUpper(symbol)}
    /\ \E ok \in BOOLEAN :
          /\ disk' = IF ok THEN watchlist' ELSE disk
          /\ call' = [op |-> "AddToWatchlist", symbol |-> symbol, err |-> ~ok]
          /\ IF ok
             THEN results' \in Sorted(MarkOrAppend(results, symbol))
             ELSE UNCHANGED results
    /\ UNCHANGED <<poolVars, scan, panicked, criteria, successCount,
                   errorCount, lastError, errorSymbol, notified, got,
                   asideVars>>

\* a locked section that leaves out every row of the symbol
DropRows(rows, symbol) == SelectSeq(rows, LAMBDA r : r.Symbol # symbol)

\* RemoveFromWatchlist, the locked section: a row of the symbol without price
\* and RSI is left out, any other row of the symbol is unpinned
DropOrUnpin(rows, symbol) ==
    LET newResults ==
            SelectSeq(rows, LAMBDA r : ~(/\ r.Symbol = symbol
                                         /\ r.Price = 0
                                         /\ r.RSI = 0))
    IN [k \in 1..Len(newResults) |->
           IF newResults[k].Symbol = symbol
           THEN [newResults[k] EXCEPT !.IsPinned = FALSE]
           ELSE newResults[k]]

RemoveFromWatchlist(symbol) ==
    /\ Running
    /\ watchlist' = watchlist \ {ToUpper(symbol)}
    /\ \E ok \in BOOLEAN :
          /\ disk' = IF ok THEN watchlist' ELSE disk
          /\ call' = [op |-> "RemoveFromWatchlist", symbol |-> symbol,
                      err |-> ~ok]
          /\ IF ok
             THEN results' \in Sorted(DropOrUnpin(results, symbol))
             ELSE UNCHANGED results
    /\ UNCHANGED <<poolVars, scan, panicked, criteria, successCount,
                   errorCount, lastError, errorSymbol, notified, got,
                   asideVars>>

\* Manager.Load: the file is read and every symbol upper-cased, or the read
\* fails and the set stays; RefreshWatchlist ignores the error
Load(ok) == IF ok THEN {ToUpper(sym) : sym \in disk} ELSE watchlist

RefreshWatchlist ==
    /\ Running
    /\ Idle
    /\ \E ok \in BOOLEAN : watchlist' = Load(ok)
    /\ \E rows \in {results} :
          results' \in Sorted([k \in 1..Len(rows) |->
              [rows[k] EXCEPT !.IsPinned = ToUpper(rows[k].Symbol) \in watchlist']])
    /\ call' = [op |-> "RefreshWatchlist", symbol |-> "", err |-> FALSE]
    /\ UNCHANGED <<poolVars, scan, panicked, criteria, successCount,
                   errorCount, lastError, errorSymbol, notified, disk, got,
                   asideVars>>

\* a GetResults that hands out e.results itself
GetResultsLive == [array |-> "live", rows |-> results]

\* results := make(..., len(e.results)); copy(results, e.results)
GetResults == [array |-> "copy", rows |-> results]

\* the user interface keeps what GetResults returned: m.results
ReadResults ==
    /\ Running
    /\ got' = GetResults
    /\ call' = [op |-> "GetResults", symbol |-> "", err |-> FALSE]
    /\ UNCHANGED <<poolVars, scan, panicked, watchlist, criteria, results,
                   successCount, errorCount, lastError, errorSymbol, notified,
                   disk, asideVars>>

\* the rows the reader finds in the slice it holds
Held == IF got.array = "live" THEN results ELSE got.rows

\* overlapped runs are explored with one-symbol lists
RestartLists == {<<"AA">>, <<"BB">>}

\* one engine, one scan
Next ==
    \/ \E c \in CriteriaSet : gen = 0 /\ SetCriteria(c)
    \/ \E l \in SymbolLists : gen = 0 /\ ScanStart(l)
    \/ Stop
    \/ \E g \in Gens : \E w \in BagToSet(wk[g]) : worker(g, w)
    \/ \E g \in Gens : Feeder(g)
    \/ \E g \in Gens : Closer(g)
    \/ \E g \in Gens : Scan(g)

Spec == Init /\ [][Next]_vars

\* every goroutine that can take a step is scheduled in the end, and every
\* fetch returns
Workers == \E g \in Gens : \E w \in BagToSet(wk[g]) : worker(g, w)
Feeders == \E g \in Gens : Feeder(g)
Closers == \E g \in Gens : Closer(g)
Callers == \E g \in Gens : Scan(g)

\* termination is a matter of the pool and the caller's loop: it is explored
\* with an empty watchlist
FairInit == Init /\ watchlist = {}

FairSpec ==
    /\ FairInit
    /\ [][Next]_vars
    /\ WF_vars(Workers)
    /\ WF_vars(Feeders)
    /\ WF_vars(Closers)
    /\ WF_vars(Callers)

\* Scan is called again on the engine, whatever the previous one is doing
NextRestart ==
    \/ \E l \in RestartLists : ScanStart(l)
    \/ Stop
    \/ \E g \in Gens : \E w \in BagToSet(wk[g]) : worker(g, w)
    \/ \E g \in Gens : Feeder(g)
    \/ \E g \in Gens : Closer(g)
    \/ \E g \in Gens : Scan(g)

\* the overlap is a matter of the pool: it is explored with an empty watchlist
RestartInit == Init /\ watchlist = {}

RestartSpec == RestartInit /\ [][NextRestart]_vars

\* the lists scanned before the watchlist is edited: two symbols, one symbol
\* in two spellings, one symbol twice
EditLists == {<<"AA", "BB">>, <<"aa", "AA">>, <<"AA", "AA">>}

\* the symbols the user interface adds and removes
EditTickers == {"AA", "aa"}

\* no run has been cancelled
Uncancelled == \A g \in Gens : ~ctxDone[g]

\* one scan, and the user interface editing the watchlist while no scan is
\* in its loop; the edits are explored on the lists of scans that were not
\* stopped
NextEdit ==
    \/ \E c \in CriteriaSet : gen = 0 /\ call = NoCall /\ SetCriteria(c)
    \/ \E l \in EditLists : gen = 0 /\ call = NoCall /\ ScanStart(l)
    \/ ~Idle /\ Stop
    \/ \E g \in Gens : \E w \in BagToSet(wk[g]) : worker(g, w)
    \/ \E g \in Gens : Feeder(g)
    \/ \E g \in Gens : Closer(g)
    \/ \E g \in Gens : Scan(g)
    \/ \E symbol \in EditTickers :
          Idle /\ Uncancelled /\ AddToWatchlist(symbol)
    \/ \E symbol \in EditTickers :
          Idle /\ Uncancelled /\ RemoveFromWatchlist(symbol)
    \/ Uncancelled /\ RefreshWatchlist

EditInit == Init /\ workers = 1

EditSpec == EditInit /\ [][NextEdit]_vars

\* one FetchAll call on a pool
NextFetchAll ==
    \/ \E l \in SymbolLists : gen = 0 /\ FetchAllStart(l)
    \/ Stop
    \/ \E g \in Gens : \E w \in BagToSet(wk[g]) : worker(g, w)
    \/ \E g \in Gens : Feeder(g)
    \/ \E g \in Gens : Closer(g)
    \/ \E g \in Gens : FetchAll(g)

\* the pool is used without the engine around it
FetchAllInit == Init /\ watchlist = {}

FetchAllSpec == FetchAllInit /\ [][NextFetchAll]_vars

\* the list scanned while a reader polls the results
ReadLists == {<<"AA", "BB">>}

\* the symbol added and removed meanwhile
ReadTickers == {"AA"}

\* a reader calling GetResults at any moment, before, during and after one
\* scan, and the watchlist edited while no scan is in its loop
NextRead ==
    \/ \E l \in ReadLists : gen = 0 /\ ScanStart(l)
    \/ Stop
    \/ \E g \in Gens : \E w \in BagToSet(wk[g]) : worker(g, w)
    \/ \E g \in Gens : Feeder(g)
    \/ \E g \in Gens : Closer(g)
    \/ \E g \in Gens : Scan(g)
    \/ \E symbol \in ReadTickers : Idle /\ AddToWatchlist(symbol)
    \/ \E symbol \in ReadTickers : Idle /\ RemoveFromWatchlist(symbol)
    \/ ReadResults

ReadInit == Init /\ workers = 1 /\ watchlist = {}

ReadSpec == ReadInit /\ [][NextRead]_vars

\* ---- the criteria changed between scans ----
CriteriaLists == {<<"AA", "BB">>}

\* one scan after the other, the criteria set before, between and after
NextCriteria ==
    \/ \E c \in CriteriaSet : SetCriteria(c)
    \/ \E l \in CriteriaLists :
          /\ \A g \in Gens : scan[g].pc \in {"none", "returned"}
          /\ ScanStart(l)
    \/ Stop
    \/ \E g \in Gens : \E w \in BagToSet(wk[g]) : worker(g, w)
    \/ \E g \in Gens : Feeder(g)
    \/ \E g \in Gens : Closer(g)
    \/ \E g \in Gens : Scan(g)

CriteriaInit == Init /\ workers = 1 /\ watchlist = {"AA"}

CriteriaSpec == CriteriaInit /\ [][NextCriteria]_vars

\* ---- the scoring functions on their own ----
\* daily closes, oldest first: too few for any indicator; fifteen that only
\* fall; fifteen that do not move; twenty that fall but for one small rise;
\* twenty that rise and fall in turn by three per cent
Short == <<10000, 9900>>

Falling == [i \in 1..15 |-> 10000 - 100 * (i - 1)]

Flat == [i \in 1..15 |-> 10000]

Sliding == [i \in 1..20 |-> IF i = 1 THEN 9990 ELSE 10000 - 50 * (i - 2)]

Choppy == [i \in 1..20 |-> IF i % 2 = 1 THEN 10000 ELSE 10300]

Series == {<<>>, Short, Bars, Falling, Flat, Sliding, Choppy}

\* the *fetcher.StockData values handed to CalculateMetrics: any error, any
\* price and fundamentals beside any series
DataSet ==
    {[StockData("AA", err, price, closes,
                [i \in 1..Len(closes) |-> closes[i] + 50],
                [i \in 1..Len(closes) |-> closes[i] - 50])
        EXCEPT !.PERatio = f.pe, !.EPS = f.eps, !.BookValue = f.bv] :
       err \in {NoError, FetchError}, price \in {0, 100, 9000, 12000},
       closes \in Series,
       f \in {[pe |-> 0, eps |-> 0, bv |-> 0],
              [pe |-> 800, eps |-> 100, bv |-> 400],
              [pe |-> 1200, eps |-> 500, bv |-> 8000],
              [pe |-> 3000, eps |-> 200, bv |-> 3000]}}

\* result := CalculateMetrics(data)
CallCalculateMetrics ==
    /\ arg.fn = "CalculateMetrics"
    /\ ret = NoRet
    /\ ret' = [fn |-> arg.fn, result |-> CalculateMetrics(arg.data)]
    /\ UNCHANGED <<poolVars, scan, panicked, engineVars, clientVars, alertVars,
                 arg>>

\* the series handed to RSI: every series of up to MaxPrices closes of four
\* levels with a period of 2, and the longer series with the period of 14
PriceLists ==
    UNION {[1..n -> {9800, 9900, 10000, 10100}] : n \in 0..MaxPrices}

RSIArgs ==
    {[fn |-> "RSI", prices |-> prices, period |-> 2] : prices \in PriceLists}
    \cup {[fn |-> "RSI", prices |-> prices, period |-> 14] : prices \in Series}

\* rsi := RSI(prices, period)
CallRSI ==
    /\ arg.fn = "RSI"
    /\ ret = NoRet
    /\ ret' = [fn |-> arg.fn, value |-> RSI(arg.prices, arg.period)]
    /\ UNCHANGED <<poolVars, scan, panicked, engineVars, clientVars, alertVars,
                 arg>>

\* the results and the criteria handed to passesFilter: every combination of
\* values below, at and above the thresholds
ResultSet ==
    {[ZeroResult EXCEPT !.Symbol = "AA", !.HasError = f.err, !.RSI = f.rsi,
                        !.PBV = f.pbv, !.GrahamUpside = f.gu,
                        !.ConfluenceScore = f.cs, !.IsOversold = f.over,
                        !.IsUndervalued = f.under] :
       f \in [err : BOOLEAN, rsi : {0, 2000, 4000, 5000}, pbv : {0, 200, 300},
              gu : {-1000, 0, 3000}, cs : {4000, 5000}, over : BOOLEAN,
              under : BOOLEAN]}

FilterSet ==
    {[DefaultCriteria EXCEPT !.MinRSI = f.min, !.OnlyOversold = f.over,
                             !.OnlyUndervalued = f.under] :
       f \in [min : {0, 3000}, over : BOOLEAN, under : BOOLEAN]}

FilterArgs ==
    {[fn |-> "passesFilter", r |-> r, criteria |-> c] :
       r \in ResultSet, c \in FilterSet}

\* e.passesFilter(r), with e.criteria as given
CallPassesFilter ==
    /\ arg.fn = "passesFilter"
    /\ ret = NoRet
    /\ ret' = [fn |-> arg.fn, value |-> passesFilter(arg.r, arg.criteria)]
    /\ UNCHANGED <<poolVars, scan, panicked, engineVars, clientVars, alertVars,
                 arg>>

\* the results handed to calculateTechnicalScore: an RSI in every bucket and
\* on every bucket's edge, a price above, at and below an average of 100.00
\* by up to 20 per cent, a risk ratio around every step
TechnicalSet ==
    {[ZeroResult EXCEPT !.Symbol = "AA", !.RSI = f.rsi, !.SMA20 = f.sma,
                        !.Price = f.price, !.RiskRatio = f.rr] :
       f \in [rsi : {0, 1, 2000, 2500, 2700, 3000, 3200, 3500, 3700, 4000,
                     4500, 5000, 5500, 6000, 8000, 10000},
              sma : {0, 10000},
              price : {8000, 9000, 9300, 9500, 9800, 10000, 11000},
              rr : {0, 99, 100, 150, 199, 200, 250, 300, 400}]}

TechnicalArgs ==
    {[fn |-> "calculateTechnicalScore", r |-> r] : r \in TechnicalSet}

\* result.TechnicalScore = calculateTechnicalScore(result)
CallTechnicalScore ==
    /\ arg.fn = "calculateTechnicalScore"
    /\ ret = NoRet
    /\ ret' = [fn |-> arg.fn, value |-> calculateTechnicalScore(arg.r)]
    /\ UNCHANGED <<poolVars, scan, panicked, engineVars, clientVars, alertVars,
                 arg>>

\* the results handed to calculateConfluenceScore: the three scores low and
\* high, both flags, and a PBV, a Graham upside and a risk ratio on either
\* side of each bonus threshold
ConfluenceSet ==
    {[ZeroResult EXCEPT !.Symbol = "AA", !.TechnicalScore = f.ts,
                        !.ValuationScore = f.vs, !.RiskScore = f.rs,
                        !.IsOversold = f.over, !.IsUndervalued = f.under,
                        !.PBV = f.pbv, !.GrahamUpside = f.gu,
                        !.RiskRatio = f.rr] :
       f \in [ts : {0, 3500, 10000}, vs : {0, 6500, 10000}, rs : {1000, 10000},
              over : BOOLEAN, under : BOOLEAN, pbv : {0, 50, 100},
              gu : {5000, 5001}, rr : {249, 250}]}

ConfluenceArgs ==
    {[fn |-> "calculateConfluenceScore", r |-> r] : r \in ConfluenceSet}

\* result.ConfluenceScore = calculateConfluenceScore(result)
CallConfluenceScore ==
    /\ arg.fn = "calculateConfluenceScore"
    /\ ret = NoRet
    /\ ret' = [fn |-> arg.fn, value |-> calculateConfluenceScore(arg.r)]
    /\ UNCHANGED <<poolVars, scan, panicked, engineVars, clientVars, alertVars,
                 arg>>

\* the prices and ATRs handed to CalculateSLTP: no price and three prices,
\* an ATR below 0, of 0, of a cent, of a few per cent of the price and above
\* every price; the multipliers of CalculateMetrics and a tighter stop
SLTPArgs ==
    {[fn |-> "CalculateSLTP", currentPrice |-> price, atr |-> atr,
      slMultiplier |-> sl, tpMultiplier |-> 3] :
       price \in {0, 100, 9000, 12000}, atr \in {-100, 0, 1, 150, 20000},
       sl \in {1, 2}}

\* risk := analysis.CalculateSLTP(data.Price, result.ATR, 2.0, 3.0)
CallCalculateSLTP ==
    /\ arg.fn = "CalculateSLTP"
    /\ ret = NoRet
    /\ ret' = [fn |-> arg.fn,
               risk |-> CalculateSLTP(arg.currentPrice, arg.atr,
                                      arg.slMultiplier, arg.tpMultiplier)]
    /\ UNCHANGED <<poolVars, scan, panicked, engineVars, clientVars, alertVars,
                 arg>>

Args ==
    {[fn |-> "CalculateMetrics", data |-> data] : data \in DataSet}
    \cup RSIArgs \cup FilterArgs \cup TechnicalArgs \cup ConfluenceArgs
    \cup SLTPArgs

NextCall ==
    \/ CallCalculateMetrics
    \/ CallRSI
    \/ CallPassesFilter
    \/ CallTechnicalScore
    \/ CallConfluenceScore
    \/ CallCalculateSLTP

CallInit ==
    /\ Constructed
    /\ workers = 1
    /\ watchlist = {}
    /\ arg \in Args
    /\ ret = NoRet

CallSpec == CallInit /\ [][NextCall]_vars

\* ---- DirectYahooClient, request by request ----
\* the two goroutines of one FetchComplete call
Fetches == {"quote", "hist"}

\* a goroutine of FetchComplete about to call makeRequest
NoRequest == [pc |-> "lock", err |-> FALSE, upper |-> FALSE]

\* the ticker fires: the tick is buffered in C, whose capacity is 1, and a
\* tick that finds C full is dropped
Tick ==
    /\ Running
    /\ rateLimiter.ticks < MaxTicks
    /\ rateLimiter' = [ticks |-> rateLimiter.ticks + 1, C |-> 1]
    /\ UNCHANGED <<poolVars, scan, panicked, engineVars, mu, requests,
                   callVars, alertVars>>

\* var wg sync.WaitGroup; wg.Add(2); go func() {...}(); go func() {...}()
FetchCompleteStart(g, w) ==
    /\ Running
    /\ w.pc = "fetch"
    /\ Becomes(g, w, [pc |-> "wait", since |-> w.since, symbol |-> w.symbol,
                      quote |-> NoRequest, hist |-> NoRequest])
    /\ UNCHANGED <<workers, gen, ctxDone, symCh, resCh, wg, runSyms, feeder,
                   closer, scan, panicked, engineVars, asideVars>>

\* the goroutine k of the call worker w is in
InFetch(w, k) == w.pc \in {"wait", "fetched"} /\ w[k].pc # "done"

\* makeRequest: c.mu.Lock()
MakeRequestLock(g, w, k) ==
    /\ Running
    /\ InFetch(w, k)
    /\ w[k].pc = "lock"
    /\ ~mu
    /\ mu' = TRUE
    /\ Becomes(g, w, [w EXCEPT ![k].pc = "tick"])
    /\ UNCHANGED <<workers, gen, ctxDone, symCh, resCh, wg, runSyms, feeder,
                   closer, scan, panicked, engineVars, rateLimiter, requests,
                   callVars, alertVars>>

\* a makeRequest that does not wait for the ticker
MakeRequestTickNoWait(g, w, k) ==
    /\ Running
    /\ InFetch(w, k)
    /\ w[k].pc = "tick"
    /\ rateLimiter' = [rateLimiter EXCEPT !.C = 0]
    /\ Becomes(g, w, [w EXCEPT ![k].pc = "unlock"])
    /\ UNCHANGED <<workers, gen, ctxDone, symCh, resCh, wg, runSyms, feeder,
                   closer, scan, panicked, engineVars, mu, requests, callVars,
                   alertVars>>

\* makeRequest: <-c.rateLimiter.C
MakeRequestTick(g, w, k) ==
    /\ Running
    /\ InFetch(w, k)
    /\ w[k].pc = "tick"
    /\ rateLimiter.C = 1
    /\ rateLimiter' = [rateLimiter EXCEPT !.C = 0]
    /\ Becomes(g, w, [w EXCEPT ![k].pc = "unlock"])
    /\ UNCHANGED <<workers, gen, ctxDone, symCh, resCh, wg, runSyms, feeder,
                   closer, scan, panicked, engineVars, mu, requests, callVars,
                   alertVars>>

\* makeRequest: c.mu.Unlock()
MakeRequestUnlock(g, w, k) ==
    /\ Running
    /\ InFetch(w, k)
    /\ w[k].pc = "unlock"
    /\ mu' = FALSE
    /\ Becomes(g, w, [w EXCEPT ![k].pc = "do"])
    /\ UNCHANGED <<workers, gen, ctxDone, symCh, resCh, wg, runSyms, feeder,
                   closer, scan, panicked, engineVars, rateLimiter, requests,
                   callVars, alertVars>>

\* makeRequest from c.httpClient.Do(req) to its return, and the rest of
\* FetchQuote or FetchHistorical: the request fails or not, the quote names
\* the symbol as asked or in upper case; then the deferred wg.Done()
MakeRequestDo(g, w, k) ==
    /\ Running
    /\ InFetch(w, k)
    /\ w[k].pc = "do"
    /\ requests' = requests + 1
    /\ \E err \in BOOLEAN, upper \in (IF k = "quote" THEN BOOLEAN ELSE {FALSE}) :
          Becomes(g, w, [w EXCEPT ![k] = [pc |-> "done", err |-> err,
                                          upper |-> upper /\ ~err]])
    /\ UNCHANGED <<workers, gen, ctxDone, symCh, resCh, wg, runSyms, feeder,
                   closer, scan, panicked, engineVars, rateLimiter, mu,
                   callVars, alertVars>>

makeRequest(g, w, k) ==
    \/ MakeRequestLock(g, w, k)
    \/ MakeRequestTick(g, w, k)
    \/ MakeRequestUnlock(g, w, k)
    \/ MakeRequestDo(g, w, k)

\* what the upstream answered to the two requests of the call w is in
Answered(w) ==
    [quoteErr |-> w.quote.err, histErr |-> w.hist.err, upper |-> w.quote.upper]

\* the worker after the call:
\* data, err := p.client.FetchComplete(p.ctx, symbol)
\* if err != nil { data = &StockData{Symbol: symbol, Error: err} }
AfterFetch(w) ==
    [pc |-> "fetched", since |-> gen, symbol |-> w.symbol, quote |-> w.quote,
     hist |-> w.hist, data |-> Fetched(w.symbol, Answered(w))]

\* a FetchComplete that goes on as soon as the quote is there
FetchCompleteReturnNoWait(g, w) ==
    /\ Running
    /\ w.pc = "wait"
    /\ w.quote.pc = "done"
    /\ Becomes(g, w, AfterFetch(w))
    /\ UNCHANGED <<workers, gen, ctxDone, symCh, resCh, wg, runSyms, feeder,
                   closer, scan, panicked, engineVars, asideVars>>

\* wg.Wait() returns once both goroutines are done; FetchComplete merges
\* what they stored and returns
FetchCompleteReturn(g, w) ==
    /\ Running
    /\ w.pc = "wait"
    /\ w.quote.pc = "done"
    /\ w.hist.pc = "done"
    /\ Becomes(g, w, AfterFetch(w))
    /\ UNCHANGED <<workers, gen, ctxDone, symCh, resCh, wg, runSyms, feeder,
                   closer, scan, panicked, engineVars, asideVars>>

\* select { case <-p.ctx.Done(): return; case p.results <- data: }
WorkerEmitDone(g, w) ==
    /\ Running
    /\ w.pc = "fetched"
    /\ \E G \in SelGens(w.since) : ctxDone[G]
    /\ WorkerExit(g, w)
    /\ UNCHANGED <<workers, gen, ctxDone, symCh, resCh, runSyms, feeder,
                   closer, scan, engineVars, asideVars>>

\* a worker that reports a symbol without history as failed
WorkerEmitQuoteOnlyAsError(g, w) ==
    /\ Running
    /\ w.pc = "fetched"
    /\ \E G \in SelGens(w.since) :
         /\ ~resCh[G].closed
         /\ Len(resCh[G].buf) < resCh[G].cap
         /\ resCh' = [resCh EXCEPT ![G].buf =
               Append(@, [data |-> IF w.hist.err
                                   THEN StockData(w.symbol, FetchError, 0,
                                                  <<>>, <<>>, <<>>)
                                   ELSE w.data,
                          req |-> w.symbol, by |-> g, o |-> Answered(w)])]
         /\ Becomes(g, w, [pc |-> "select", since |-> gen, symbol |-> ""])
    /\ UNCHANGED <<workers, gen, ctxDone, symCh, wg, runSyms, feeder,
                   closer, scan, panicked, engineVars, asideVars>>

\* p.results <- data; o records what the upstream had answered
WorkerEmit(g, w) ==
    /\ Running
    /\ w.pc = "fetched"
    /\ \E G \in SelGens(w.since) :
         /\ ~resCh[G].closed
         /\ Len(resCh[G].buf) < resCh[G].cap
         /\ resCh' = [resCh EXCEPT ![G].buf =
               Append(@, [data |-> w.data, req |-> w.symbol, by |-> g,
                          o |-> Answered(w)])]
         /\ Becomes(g, w, [pc |-> "select", since |-> gen, symbol |-> ""])
    /\ UNCHANGED <<workers, gen, ctxDone, symCh, wg, runSyms, feeder,
                   closer, scan, panicked, engineVars, asideVars>>

\* worker, with the call of FetchComplete taken apart
workerOfClient(g, w) ==
    \/ WorkerSelectDone(g, w)
    \/ WorkerTake(g, w)
    \/ WorkerQueueClosed(g, w)
    \/ FetchCompleteStart(g, w)
    \/ \E k \in Fetches : makeRequest(g, w, k)
    \/ FetchCompleteReturn(g, w)
    \/ WorkerEmitDone(g, w)
    \/ WorkerEmit(g, w)

\* ---- Stop, then Start ----
\* every goroutine of every run has returned and no caller is in its loop
Quiet ==
    \A g \in Gens :
        /\ wk[g] = EmptyBag
        /\ feeder[g].pc \in {"none", "done"}
        /\ closer[g] \in {"none", "done"}
        /\ scan[g].pc \in {"none", "collected"}

StopFirstLists == {<<"AA">>, <<"aa", "BB">>}

\* FetchAll is called on a pool at rest whose context has been cancelled by
\* Stop; Stop is called at any moment
NextStopFirst ==
    \/ \E l \in StopFirstLists : ctxDone[gen] /\ Quiet /\ FetchAllStart(l)
    \/ Stop
    \/ \E g \in Gens : \E w \in BagToSet(wk[g]) : worker(g, w)
    \/ \E g \in Gens : Feeder(g)
    \/ \E g \in Gens : Closer(g)
    \/ \E g \in Gens : FetchAll(g)

FetchAlls == \E g \in Gens : FetchAll(g)

StopFirstInit == Init /\ watchlist = {}

\* every goroutine that can take a step is scheduled in the end
StopFirstSpec ==
    /\ StopFirstInit
    /\ [][NextStopFirst]_vars
    /\ WF_vars(Workers)
    /\ WF_vars(Feeders)
    /\ WF_vars(Closers)
    /\ WF_vars(FetchAlls)

\* ---- the watchlist edited during a scan ----
DuringLists == {<<"AA">>, <<"AA", "BB">>}

\* the symbol of the row the user has selected
DuringTickers == {"AA"}

\* one scan, and the user interface adding the selected symbol to the
\* watchlist or removing it while the scan is in its loop
NextDuring ==
    \/ \E l \in DuringLists : gen = 0 /\ ScanStart(l)
    \/ Stop
    \/ \E g \in Gens : \E w \in BagToSet(wk[g]) : worker(g, w)
    \/ \E g \in Gens : Feeder(g)
    \/ \E g \in Gens : Closer(g)
    \/ \E g \in Gens : Scan(g)
    \/ \E symbol \in DuringTickers : ~Idle /\ AddToWatchlist(symbol)
    \/ \E symbol \in DuringTickers : ~Idle /\ RemoveFromWatchlist(symbol)

DuringInit == Init /\ workers = 1

DuringSpec == DuringInit /\ [][NextDuring]_vars

ClientLists == {<<"AA">>, <<"aa", "BB">>}

\* one FetchAll call on a pool whose client is watched request by request
NextClient ==
    \/ \E l \in ClientLists : gen = 0 /\ FetchAllStart(l)
    \/ Stop
    \/ Tick
    \/ \E g \in Gens : \E w \in BagToSet(wk[g]) : workerOfClient(g, w)
    \/ \E g \in Gens : Feeder(g)
    \/ \E g \in Gens : Closer(g)
    \/ \E g \in Gens : FetchAll(g)

ClientInit == Init /\ watchlist = {}

ClientSpec == ClientInit /\ [][NextClient]_vars

\* ---- internal/watchlist: Manager ----
\* the symbols a caller may name, in either letter case
ManagerTickers == {"aa", "AA", "BB"}

\* a Manager.Add that stores the symbol as it is typed
AddAsTyped(symbol) ==
    /\ Running
    /\ watchlist' = watchlist \cup {symbol}
    /\ arg' = [fn |-> "Add", symbol |-> symbol, symbols |-> watchlist]
    /\ \E ok \in BOOLEAN :
          /\ disk' = IF ok THEN watchlist' ELSE disk
          /\ ret' = [fn |-> "Add", err |-> ~ok]
    /\ UNCHANGED <<poolVars, scan, panicked, criteria, results, successCount,
                   errorCount, lastError, errorSymbol, notified, got, call,
                   clientVars, alertVars>>

\* Manager.Add; arg keeps the call and the set it found, ret the error of
\* saveUnsafe
Add(symbol) ==
    /\ Running
    /\ watchlist' = watchlist \cup {ToUpper(symbol)}
    /\ arg' = [fn |-> "Add", symbol |-> symbol, symbols |-> watchlist]
    /\ \E ok \in BOOLEAN :
          /\ disk' = IF ok THEN watchlist' ELSE disk
          /\ ret' = [fn |-> "Add", err |-> ~ok]
    /\ UNCHANGED <<poolVars, scan, panicked, criteria, results, successCount,
                   errorCount, lastError, errorSymbol, notified, got, call,
                   clientVars, alertVars>>

\* Manager.Remove
Remove(symbol) ==
    /\ Running
    /\ watchlist' = watchlist \ {ToUpper(symbol)}
    /\ arg' = [fn |-> "Remove", symbol |-> symbol, symbols |-> watchlist]
    /\ \E ok \in BOOLEAN :
          /\ disk' = IF ok THEN watchlist' ELSE disk
          /\ ret' = [fn |-> "Remove", err |-> ~ok]
    /\ UNCHANGED <<poolVars, scan, panicked, criteria, results, successCount,
                   errorCount, lastError, errorSymbol, notified, got, call,
                   clientVars, alertVars>>

\* Manager.Toggle: Remove if IsPinned, Add otherwise
Toggle(symbol) ==
    /\ Running
    /\ watchlist' = IF IsPinned(ToUpper(symbol))
                    THEN watchlist \ {ToUpper(ToUpper(symbol))}
                    ELSE watchlist \cup {ToUpper(ToUpper(symbol))}
    /\ arg' = [fn |-> "Toggle", symbol |-> symbol, symbols |-> watchlist]
    /\ \E ok \in BOOLEAN :
          /\ disk' = IF ok THEN watchlist' ELSE disk
          /\ ret' = [fn |-> "Toggle", added |-> ~IsPinned(ToUpper(symbol)),
                     err |-> ~ok]
    /\ UNCHANGED <<poolVars, scan, panicked, criteria, results, successCount,
                   errorCount, lastError, errorSymbol, notified, got, call,
                   clientVars, alertVars>>

\* Manager.Clear
Clear ==
    /\ Running
    /\ watchlist' = {}
    /\ arg' = [fn |-> "Clear", symbol |-> "", symbols |-> watchlist]
    /\ \E ok \in BOOLEAN :
          /\ disk' = IF ok THEN watchlist' ELSE disk
          /\ ret' = [fn |-> "Clear", err |-> ~ok]
    /\ UNCHANGED <<poolVars, scan, panicked, criteria, results, successCount,
                   errorCount, lastError, errorSymbol, notified, got, call,
                   clientVars, alertVars>>

\* the watchlist manager called by one caller, one method after another
NextManager ==
    \/ \E symbol \in ManagerTickers : Add(symbol)
    \/ \E symbol \in ManagerTickers : Remove(symbol)
    \/ \E symbol \in ManagerTickers : Toggle(symbol)
    \/ Clear

ManagerInit == Init /\ workers = 1

ManagerSpec == ManagerInit /\ [][NextManager]_vars

\* ---- internal/alerts: Manager ----
\* an Alert is kept without its time stamps CreatedAt and TriggeredAt, which
\* no method reads
\* time.Now().Format("20060102150405.000"): the time to the millisecond
generateID == now

\* a millisecond passes
TimePasses ==
    /\ now < MaxNow
    /\ now' = now + 1
    /\ UNCHANGED <<poolVars, scan, panicked, engineVars, clientVars, callVars,
                   alertObjs, alerts, symbolAlerts, triggeredAlerts,
                   alertsFile>>

\* m.saveUnsafe(): the file gets a copy of every Alert of m.alerts; the
\* write is taken to succeed
saveUnsafe(objs, byID) == {objs[byID[id]] : id \in DOMAIN byID}

\* the alerts the user creates: one of each type, three on each symbol
AlertInputs ==
    {[Symbol |-> "aa", Type |-> "above", Threshold |-> 100, LastPrice |-> 90],
     [Symbol |-> "BB", Type |-> "below", Threshold |-> 100, LastPrice |-> 110],
     [Symbol |-> "aa", Type |-> "cross", Threshold |-> 100, LastPrice |-> 90],
     [Symbol |-> "BB", Type |-> "change", Threshold |-> 10, LastPrice |-> 90],
     [Symbol |-> "aa", Type |-> "rsi_low", Threshold |-> 30, LastPrice |-> 90],
     [Symbol |-> "BB", Type |-> "rsi_high", Threshold |-> 70,
      LastPrice |-> 90]}

AlertTickers == {"aa", "BB"}

\* Manager.Add
AlertsAdd(symbol, alertType, threshold, lastPrice) ==
    /\ Len(alertObjs) < MaxAlerts
    /\ LET id == generateID
           sym == ToUpper(symbol)
           alert == [ID |-> id, Symbol |-> sym, Type |-> alertType,
                     Threshold |-> threshold, IsTriggered |-> FALSE,
                     IsActive |-> TRUE, Message |-> "",
                     LastPrice |-> lastPrice]
           a == Len(alertObjs) + 1
       IN /\ alertObjs' = Append(alertObjs, alert)
          /\ alerts' = [i \in DOMAIN alerts \cup {id} |->
                          IF i = id THEN a ELSE alerts[i]]
          /\ symbolAlerts' = [symbolAlerts EXCEPT ![sym] = Append(@, a)]
          /\ alertsFile' = saveUnsafe(alertObjs', alerts')
          /\ ret' = [fn |-> "Add", alert |-> a]
    /\ UNCHANGED <<poolVars, scan, panicked, engineVars, clientVars, arg,
                   triggeredAlerts, now>>

\* Manager.Remove
AlertsRemove(id) ==
    /\ IF id \notin DOMAIN alerts
       THEN UNCHANGED <<alerts, symbolAlerts, alertsFile>>
       ELSE LET symbol == alertObjs[alerts[id]].Symbol
            IN /\ alerts' = [i \in DOMAIN alerts \ {id} |-> alerts[i]]
               /\ symbolAlerts' =
                     [symbolAlerts EXCEPT ![symbol] =
                        SelectSeq(@, LAMBDA a : alertObjs[a].ID # id)]
               /\ alertsFile' = saveUnsafe(alertObjs, alerts')
    /\ ret' = [fn |-> "Remove", id |-> id]
    /\ UNCHANGED <<poolVars, scan, panicked, engineVars, clientVars, arg,
                   alertObjs, triggeredAlerts, now>>

\* the switch of CheckPrice: the alert's condition is met
shouldTrigger(alert, currentPrice, currentRSI) ==
    CASE alert.Type = "above" -> currentPrice >= alert.Threshold
      [] alert.Type = "below" -> currentPrice <= alert.Threshold
      [] alert.Type = "cross" ->
            \/ alert.LastPrice < alert.Threshold
               /\ currentPrice >= alert.Threshold
            \/ alert.LastPrice > alert.Threshold
               /\ currentPrice <= alert.Threshold
      [] alert.Type = "change" ->
            /\ alert.LastPrice > 0
            /\ \/ (currentPrice - alert.LastPrice) * 100
                     >= alert.Threshold * alert.LastPrice
               \/ (currentPrice - alert.LastPrice) * 100
                     <= (0 - alert.Threshold) * alert.LastPrice
      [] alert.Type = "rsi_low" ->
            currentRSI > 0 /\ currentRSI <= alert.Threshold
      [] alert.Type = "rsi_high" ->
            currentRSI > 0 /\ currentRSI >= alert.Threshold
      [] OTHER -> FALSE

\* the message the switch of CheckPrice leaves in the alert
MessageOf(alertType) ==
    CASE alertType = "above" -> "Price crossed above threshold"
      [] alertType = "below" -> "Price crossed below threshold"
      [] alertType = "cross" -> "Price crossed threshold"
      [] alertType = "change" -> "Price changed significantly"
      [] alertType = "rsi_low" -> "RSI dropped below threshold"
      [] alertType = "rsi_high" -> "RSI rose above threshold"
      [] OTHER -> ""

\* a CheckPrice loop that skips the inactive alerts only
RECURSIVE CheckPriceLoopNoLatch(_, _, _, _, _, _)
CheckPriceLoopNoLatch(list, k, objs, triggered, currentPrice, currentRSI) ==
    IF k > Len(list) THEN [objs |-> objs, triggered |-> triggered]
    ELSE LET alert == objs[list[k]]
         IN IF ~alert.IsActive
            THEN CheckPriceLoopNoLatch(list, k + 1, objs, triggered,
                                       currentPrice, currentRSI)
            ELSE IF shouldTrigger(alert, currentPrice, currentRSI)
            THEN LET hit == [alert EXCEPT !.IsTriggered = TRUE,
                                         !.Message = MessageOf(alert.Type)]
                     ta == [Alert |-> hit, CurrentPrice |-> currentPrice,
                            CurrentRSI |-> currentRSI]
                 IN CheckPriceLoopNoLatch(list, k + 1,
                                          [objs EXCEPT ![list[k]] = hit],
                                          Append(triggered, ta),
                                          currentPrice, currentRSI)
            ELSE CheckPriceLoopNoLatch(list, k + 1, objs, triggered,
                                       currentPrice, currentRSI)

\* the loop of CheckPrice from the k-th alert of the symbol on: the Alert
\* values and the triggered slice it ends with
RECURSIVE CheckPriceLoop(_, _, _, _, _, _)
CheckPriceLoop(list, k, objs, triggered, currentPrice, currentRSI) ==
    IF k > Len(list) THEN [objs |-> objs, triggered |-> triggered]
    ELSE LET alert == objs[list[k]]
         IN IF ~alert.IsActive \/ alert.IsTriggered
            THEN CheckPriceLoop(list, k + 1, objs, triggered,
                                currentPrice, currentRSI)
            ELSE IF shouldTrigger(alert, currentPrice, currentRSI)
            THEN LET hit == [alert EXCEPT !.IsTriggered = TRUE,
                                         !.Message = MessageOf(alert.Type)]
                     ta == [Alert |-> hit, CurrentPrice |-> currentPrice,
                            CurrentRSI |-> currentRSI]
                 IN CheckPriceLoop(list, k + 1,
                                   [objs EXCEPT ![list[k]] = hit],
                                   Append(triggered, ta),
                                   currentPrice, currentRSI)
            ELSE CheckPriceLoop(list, k + 1, objs, triggered,
                                currentPrice, currentRSI)

\* the prices and RSIs the results of a scan bring
PriceInputs ==
    {[Price |-> 90, RSI |-> 25], [Price |-> 110, RSI |-> 75]}

\* Manager.CheckPrice
CheckPrice(symbol, currentPrice, currentRSI) ==
    /\ Len(triggeredAlerts) < MaxTriggered
    /\ LET out == CheckPriceLoop(symbolAlerts[ToUpper(symbol)], 1, alertObjs,
                                 <<>>, currentPrice, currentRSI)
       IN /\ alertObjs' = out.objs
          /\ triggeredAlerts' = triggeredAlerts \o out.triggered
          /\ ret' = [fn |-> "CheckPrice", triggered |-> out.triggered]
          /\ IF Len(out.triggered) > 0
             THEN alertsFile' = saveUnsafe(out.objs, alerts)
             ELSE UNCHANGED alertsFile
    /\ UNCHANGED <<poolVars, scan, panicked, engineVars, clientVars, arg,
                   alerts, symbolAlerts, now>>

\* Manager.ClearTriggeredAlerts
ClearTriggeredAlerts ==
    /\ triggeredAlerts' = <<>>
    /\ ret' = [fn |-> "ClearTriggeredAlerts"]
    /\ UNCHANGED <<poolVars, scan, panicked, engineVars, clientVars, arg,
                   alertObjs, alerts, symbolAlerts, alertsFile, now>>

\* Manager.ResetAlert
ResetAlert(id) ==
    /\ IF id \notin DOMAIN alerts
       THEN UNCHANGED <<alertObjs, alertsFile>>
       ELSE /\ alertObjs' = [alertObjs EXCEPT ![alerts[id]] =
                               [@ EXCEPT !.IsTriggered = FALSE,
                                         !.Message = ""]]
            /\ alertsFile' = saveUnsafe(alertObjs', alerts)
    /\ ret' = [fn |-> "ResetAlert", id |-> id]
    /\ UNCHANGED <<poolVars, scan, panicked, engineVars, clientVars, arg,
                   alerts, symbolAlerts, triggeredAlerts, now>>

\* Manager.ToggleActive
ToggleActive(id) ==
    /\ IF id \notin DOMAIN alerts
       THEN /\ ret' = [fn |-> "ToggleActive", active |-> FALSE]
            /\ UNCHANGED <<alertObjs, alertsFile>>
       ELSE /\ alertObjs' = [alertObjs EXCEPT ![alerts[id]] =
                               [@ EXCEPT !.IsActive = ~@]]
            /\ alertsFile' = saveUnsafe(alertObjs', alerts)
            /\ ret' = [fn |-> "ToggleActive",
                       active |-> alertObjs'[alerts[id]].IsActive]
    /\ UNCHANGED <<poolVars, scan, panicked, engineVars, clientVars, arg,
                   alerts, symbolAlerts, triggeredAlerts, now>>

\* the alerts manager in the hands of the user interface: alerts are
\* created, removed, switched off and on and reset while the results of the
\* scans are checked against them
NextAlerts ==
    \/ TimePasses
    \/ \E in \in AlertInputs :
          AlertsAdd(in.Symbol, in.Type, in.Threshold, in.LastPrice)
    \/ \E id \in 0..MaxNow : AlertsRemove(id)
    \/ \E symbol \in AlertTickers : \E in \in PriceInputs :
          CheckPrice(symbol, in.Price, in.RSI)
    \/ ClearTriggeredAlerts
    \/ \E id \in 0..MaxNow : ResetAlert(id)
    \/ \E id \in 0..MaxNow : ToggleActive(id)

AlertsInit == Init /\ workers = 1 /\ watchlist = {}

AlertsSpec == AlertsInit /\ [][NextAlerts]_vars

\* ---------------------------------------------------------------------
\* Properties of the worker pool
\* ---------------------------------------------------------------------

\* what has been sent on the stream of run g: taken by the caller, or buffered
Buffered(g) ==
    {[Symbol |-> resCh[g].buf[k].data.Symbol,
      Error |-> resCh[g].buf[k].data.Error,
      req |-> resCh[g].buf[k].req,
      by |-> resCh[g].buf[k].by] : k \in 1..Len(resCh[g].buf)}

Taken(g) == BagToSet(scan[g].recv)

\* how many results the caller of run g has taken for the symbol s
NumTaken(g, s) ==
    BagCardinality([e \in {x \in Taken(g) : x.req = s} |-> scan[g].recv[e]])

\* how many workers of run g hold a fetched result to send
Fetching(g) ==
    BagCardinality([w \in {x \in BagToSet(wk[g]) : x.pc = "fetch"} |-> wk[g][w]])

\* run g has returned to its caller without Stop and without another Start
Completed(g) == scan[g].pc = "returned" /\ gen = g /\ ~ctxDone[g]

\* C1: a run over N distinct symbols with W <= N workers that is neither
\* stopped nor restarted hands its caller exactly N results, exactly one for
\* each symbol asked, whichever fetches fail
C1_PoolCompleteness ==
    \A g \in Gens :
        (/\ Completed(g)
         /\ Distinct(runSyms[g])
         /\ workers <= Len(runSyms[g]))
        => /\ BagCardinality(scan[g].recv) = Len(runSyms[g])
           /\ \A s \in SeqToSet(runSyms[g]) : NumTaken(g, s) = 1

\* a completed run of two workers over two symbols, one fetch failed
C1_Witness ==
    /\ Completed(1)
    /\ workers = 2
    /\ runSyms[1] = <<"AA", "BB">>
    /\ \E e \in Taken(1) : e.req = "AA" /\ e.Error # NoError
    /\ \E e \in Taken(1) : e.req = "BB" /\ e.Error = NoError

\* C5: while no other Start overlaps the run, the result stream is closed only
\* when every worker of the run has returned, a worker has returned only if
\* the work queue is closed and empty or the context is cancelled, and no
\* send or close ever hits a closed channel
C5_CloseAfterWorkers ==
    \A g \in Gens :
        /\ resCh[g].closed => wk[g] = EmptyBag
        /\ (closer[g] # "none" /\ BagCardinality(wk[g]) < workers)
             => \/ symCh[g].closed /\ symCh[g].buf = <<>>
                \/ ctxDone[g]
        /\ panicked = ""

\* the stream of a run that was not stopped is closed, with results taken
C5_Witness ==
    /\ resCh[1].closed
    /\ closer[1] = "done"
    /\ ~ctxDone[1]
    /\ workers = 2
    /\ BagCardinality(scan[1].recv) = 1
    /\ Len(resCh[1].buf) = 1

\* C6: a failed fetch yields one result naming the symbol asked and carrying
\* the error, and the run goes on: every symbol of a completed run has its
\* one result, so successes and failures together count N
C6_FailureIsolation ==
    \A g \in Gens :
        /\ \A e \in Buffered(g) \cup Taken(g) :
               e.Error # NoError => e.Symbol = e.req /\ e.Error = FetchError
        /\ (Completed(g) /\ Distinct(runSyms[g]))
             => /\ \A s \in SeqToSet(runSyms[g]) : NumTaken(g, s) = 1
                /\ successCount + errorCount = Len(runSyms[g])

\* a completed run in which the first symbol failed and the second did not
C6_Witness ==
    /\ Completed(1)
    /\ Len(runSyms[1]) = 2
    /\ Distinct(runSyms[1])
    /\ errorCount = 1
    /\ successCount = 1
    /\ errorSymbol = runSyms[1][1]

\* C7: the result stream of a run over N symbols never buffers more than N
\* results, and whenever a worker holds a result to send there is room for it
C7_Backpressure ==
    \A g \in Gens :
        /\ Len(resCh[g].buf) <= Len(runSyms[g])
        /\ Fetching(g) > 0 => Len(resCh[g].buf) < resCh[g].cap

\* all workers are done and the caller has not taken anything yet
C7_Witness ==
    /\ Len(runSyms[1]) = 2
    /\ Len(resCh[1].buf) = 2
    /\ wk[1] = EmptyBag
    /\ scan[1].recv = EmptyBag
    /\ ~ctxDone[1]

\* how many results have been put on the stream of run g so far
Sent(g) == Len(resCh[g].buf) + BagCardinality(scan[g].recv)

\* C2: a Start during a run leaves only the new run active: what arrives on
\* the new stream was sent by the new run's workers for the new run's
\* symbols, nothing panics, and the new run hands its caller exactly one
\* result for each of its symbols
C2_RestartIsolation ==
    \A g \in Gens :
        g > 1 =>
            /\ \A e \in Buffered(g) \cup Taken(g) :
                   e.by = g /\ e.req \in SeqToSet(runSyms[g])
            /\ panicked = ""
            /\ Completed(g) =>
                   \A s \in SeqToSet(runSyms[g]) : NumTaken(g, s) = 1

\* C3: once the context of a run is cancelled, no result is put on its stream
C3_NoResultAfterStop ==
    [][\A g \in Gens : ctxDone[g] => Sent(g)' = Sent(g)]_vars

\* the run is over: its workers have returned, both channels are closed and
\* Scan has returned to its caller
Terminated(g) ==
    /\ wk[g] = EmptyBag
    /\ symCh[g].closed
    /\ resCh[g].closed
    /\ scan[g].pc = "returned"

\* C4: whenever Stop cancels a run, whatever the feeder and the workers have
\* done by then, the workers return, the work queue and the result stream
\* get closed and Scan returns
C4_CancellationTerminates ==
    \A g \in Gens : ctxDone[g] ~> Terminated(g)

\* a run stopped before all its results were produced has come to its end
C4_Witness ==
    /\ ctxDone[1]
    /\ Terminated(1)
    /\ workers = 2
    /\ Len(runSyms[1]) = 2
    /\ BagCardinality(scan[1].recv) = 1

\* ---------------------------------------------------------------------
\* Properties of Engine.Scan
\* ---------------------------------------------------------------------

\* the rows Scan returned to the caller of run g
Rows(g) == {scan[g].ret[k] : k \in 1..Len(scan[g].ret)}

\* how many rows Scan returned for the symbol s
NumRows(g, s) ==
    Cardinality({k \in 1..Len(scan[g].ret) : scan[g].ret[k].Symbol = s})

\* C8: under criteria that reject every result, a Scan over distinct symbols
\* that are all in the watchlist returns exactly one row for each of them,
\* and every row it returns is pinned, whether the fetches succeed or fail
C8_PinnedBypass ==
    \A g \in Gens :
        (/\ scan[g].pc = "returned"
         /\ criteria = RejectAllCriteria
         /\ Distinct(runSyms[g])
         /\ SeqToSet(runSyms[g]) \subseteq watchlist)
        => /\ \A s \in SeqToSet(runSyms[g]) : NumRows(g, s) = 1
           /\ \A r \in Rows(g) : r.IsPinned

\* both symbols are pinned, one was fetched and the other failed
C8_Witness ==
    /\ Completed(1)
    /\ criteria = RejectAllCriteria
    /\ runSyms[1] = <<"AA", "BB">>
    /\ watchlist = {"AA", "BB"}
    /\ \E r \in Rows(1) : r.HasError
    /\ \E r \in Rows(1) : r.Price > 0

\* C9: every row of a returned Scan that is not pinned has no error and meets
\* the criteria
C9_FilterExclusion ==
    \A g \in Gens :
        scan[g].pc = "returned" =>
            \A r \in Rows(g) :
                ~r.IsPinned => ~r.HasError /\ passesFilter(r, criteria)

\* a row that is not pinned was kept, a failed one that is not pinned was not
C9_Witness ==
    /\ Completed(1)
    /\ criteria = RelaxedCriteria
    /\ \E r \in Rows(1) : ~r.IsPinned /\ r.Price > 0
    /\ \E e \in Taken(1) :
           /\ e.Error # NoError
           /\ ~IsPinned(e.Symbol)
           /\ NumRows(1, e.Symbol) = 0

\* the failed results Scan took for pinned symbols
PinnedFailures(g) ==
    {e \in Taken(g) : e.Error # NoError /\ IsPinned(e.Symbol)}

\* C10 as stated: the rows returned for a pinned symbol whose fetch failed
\* carry no error flag and no error message
C10_PinnedFailureIsPlaceholder ==
    \A g \in Gens :
        scan[g].pc = "returned" =>
            \A e \in PinnedFailures(g) : \A r \in Rows(g) :
                r.Symbol = e.Symbol => ~r.HasError /\ r.ErrorMessage = ""

\* C10 amended: a pinned symbol whose fetch failed is returned as its error
\* row: pinned, flagged, with the error's message and a zero price; no
\* placeholder is made for that symbol
C10_PinnedFailureKeptAsError ==
    \A g \in Gens :
        scan[g].pc = "returned" =>
            \A e \in PinnedFailures(g) :
                /\ \E r \in Rows(g) :
                       /\ r.Symbol = e.Symbol
                       /\ r.IsPinned
                       /\ r.HasError
                       /\ r.ErrorMessage = e.Error
                       /\ r.Price = 0
                /\ \A r \in Rows(g) :
                       r.Symbol = e.Symbol => r.HasError \/ r.Price > 0

\* Scan has returned after the fetch of a pinned symbol failed
C10_Witness ==
    /\ scan[1].pc = "returned"
    /\ runSyms[1] = <<"BB">>
    /\ watchlist = {"BB"}
    /\ PinnedFailures(1) # {}

\* C11: when Scan has returned, after a completed or a cancelled run, every
\* symbol of the watchlist has a row under its own name; if no result came
\* in under that name the symbol has exactly one row, the zero-valued pinned
\* placeholder, and if one did no placeholder was made for it
C11_PlaceholderPerPinned ==
    \A g \in Gens :
        scan[g].pc = "returned" =>
            \A s \in watchlist :
                /\ NumRows(g, s) >= 1
                /\ IF \E e \in Taken(g) : e.Symbol = s
                   THEN PlaceholderRow(s) \notin Rows(g)
                   ELSE /\ NumRows(g, s) = 1
                        /\ PlaceholderRow(s) \in Rows(g)

\* a cancelled Scan returned the row of the pinned symbol it received and a
\* placeholder for the pinned symbol it did not
C11_Witness ==
    /\ scan[1].pc = "returned"
    /\ ctxDone[1]
    /\ watchlist = {"AA", "BB"}
    /\ runSyms[1] = <<"AA", "BB">>
    /\ \E e \in Taken(1) : e.Symbol = "AA"
    /\ \A e \in Taken(1) : e.Symbol # "BB"
    /\ PlaceholderRow("BB") \in Rows(1)
    /\ PlaceholderRow("AA") \notin Rows(1)

\* ---------------------------------------------------------------------
\* Properties of the result list under watchlist edits
\* ---------------------------------------------------------------------

\* every pinned row is before every unpinned row, and among the pinned rows
\* and among the unpinned rows the confluence score never goes up
Ordered(rows) ==
    \A i, j \in 1..Len(rows) :
        i < j =>
            /\ rows[j].IsPinned => rows[i].IsPinned
            /\ rows[i].IsPinned = rows[j].IsPinned
                 => rows[i].ConfluenceScore >= rows[j].ConfluenceScore

\* C12: whenever no Scan is in its loop, that is after Scan, AddToWatchlist,
\* RemoveFromWatchlist or RefreshWatchlist has returned, the result list is
\* ordered: pinned rows first, scores non-increasing within each group
C12_SortOrder == Idle => Ordered(results)

\* RemoveFromWatchlist has returned a list with a pinned row and two
\* unpinned rows of different scores
C12_Witness ==
    /\ Idle
    /\ call.op = "RemoveFromWatchlist"
    /\ ~call.err
    /\ \E k \in 1..Len(results) : results[k].IsPinned
    /\ \E i, j \in 1..Len(results) :
           /\ ~results[i].IsPinned
           /\ ~results[j].IsPinned
           /\ results[i].ConfluenceScore > results[j].ConfluenceScore

\* the rows whose symbol is the given one in some spelling
Spelled(rows, symbol) ==
    {k \in 1..Len(rows) : ToUpper(rows[k].Symbol) = ToUpper(symbol)}

\* C13: symbols are matched whatever their letter case: AddToWatchlist of a
\* symbol that has a row in some spelling appends no row, after
\* RemoveFromWatchlist no row of the symbol in any spelling is still pinned,
\* and Scan makes no placeholder for a pinned symbol of which a result
\* arrived in some spelling
C13_CaseInsensitive ==
    [][/\ \A s \in EditTickers :
              (/\ AddToWatchlist(s)
               /\ ~call'.err
               /\ Spelled(results, s) # {})
              => Len(results') = Len(results)
       /\ \A s \in EditTickers :
              (RemoveFromWatchlist(s) /\ ~call'.err)
              => \A k \in Spelled(results', s) : ~results'[k].IsPinned
       /\ \A g \in Gens :
              ScanReturn(g)
              => \A s \in watchlist :
                     (\E e \in Taken(g) : ToUpper(e.Symbol) = s)
                     => PlaceholderRow(s) \notin Rows(g)']_vars

\* the rows that carry exactly the given symbol
RowsOf(rows, symbol) == {k \in 1..Len(rows) : rows[k].Symbol = symbol}

\* the rows of a list, with how often each occurs
RowBag(rows) ==
    [r \in {rows[k] : k \in 1..Len(rows)} |->
        Cardinality({k \in 1..Len(rows) : rows[k] = r})]

\* the rows of the other symbols are the same before and after
OthersKept(before, after, symbol) ==
    RowBag(SelectSeq(after, LAMBDA r : r.Symbol # symbol))
        = RowBag(SelectSeq(before, LAMBDA r : r.Symbol # symbol))

\* AddToWatchlist(s) marks a row if there is one and appends a placeholder
\* if there is none
AddMarksOrAppends(s) ==
    IF RowsOf(results, s) # {}
    THEN /\ Len(results') = Len(results)
         /\ \E k \in RowsOf(results', s) : results'[k].IsPinned
    ELSE /\ Len(results') = Len(results) + 1
         /\ RowsOf(results', s) # {}
         /\ \A k \in RowsOf(results', s) : results'[k] = PlaceholderRow(s)

\* AddToWatchlist(s) straight after an AddToWatchlist(s) that succeeded
\* leaves the watchlist and the rows as they are
AddAgainChangesNothing(s) ==
    (call = [op |-> "AddToWatchlist", symbol |-> s, err |-> FALSE])
    => /\ watchlist' = watchlist
       /\ RowBag(results') = RowBag(results)

UnpinnedData(rows, symbol) ==
    LET data == SelectSeq(rows, LAMBDA r : /\ r.Symbol = symbol
                                           /\ ~(r.Price = 0 /\ r.RSI = 0))
    IN [k \in 1..Len(data) |-> [data[k] EXCEPT !.IsPinned = FALSE]]

\* C15: RemoveFromWatchlist(s), when the watchlist is saved, deletes the rows
\* of s that have price 0 and RSI 0, keeps its other rows with only the
\* pinned flag cleared, and leaves the rows of every other symbol as they
\* are; when the save fails the result list is unchanged
C15_RemoveFrame ==
    [][\A s \in EditTickers :
          RemoveFromWatchlist(s)
          => IF call'.err
             THEN results' = results
             ELSE /\ RowBag(SelectSeq(results', LAMBDA r : r.Symbol = s))
                       = RowBag(UnpinnedData(results, s))
                  /\ OthersKept(results, results', s)]_vars

\* RemoveFromWatchlist("AA") has returned: the fetched row of AA, which only
\* its pin had kept in the list, is still there without the pin, and the
\* pinned row of BB is untouched
C15_Witness ==
    /\ call = [op |-> "RemoveFromWatchlist", symbol |-> "AA", err |-> FALSE]
    /\ criteria = RejectAllCriteria
    /\ watchlist = {"BB"}
    /\ \E k \in RowsOf(results, "AA") :
           ~results[k].IsPinned /\ results[k].Price > 0
    /\ \E k \in RowsOf(results, "BB") : results[k].IsPinned
    /\ PlaceholderRow("aa") \notin {results[k] : k \in 1..Len(results)}

\* ---------------------------------------------------------------------
\* Properties of one Scan among others
\* ---------------------------------------------------------------------

\* the symbols a result of run g can carry: a symbol asked, as asked or as
\* the upstream spells it
Asked(g) == SeqToSet(runSyms[g]) \cup {ToUpper(s) : s \in SeqToSet(runSyms[g])}

\* C16: when the latest Scan has returned, every row it returned carries a
\* symbol of its own list or is the placeholder of a pinned symbol, and the
\* counters count the results of this Scan only, also when the Scan started
\* while an earlier one was still in its loop
C16_ScanReplaces ==
    \A g \in Gens :
        (scan[g].pc = "returned" /\ gen = g)
        => /\ \A r \in Rows(g) :
                  \/ r.Symbol \in Asked(g)
                  \/ r.Symbol \in watchlist /\ r = PlaceholderRow(r.Symbol)
           /\ successCount + errorCount = BagCardinality(scan[g].recv)
           /\ \A e \in Taken(g) : e.req \in SeqToSet(runSyms[g])

\* ---------------------------------------------------------------------
\* Properties of the progress callbacks
\* ---------------------------------------------------------------------

\* C17: in one Scan over N symbols the progress callback is called once for
\* each result received, the k-th call with Completed = k, Total = N and the
\* symbol of a result received; at every call SuccessCount + ErrorCount =
\* Completed <= Total, no counter is lower than at the call before, and a
\* Scan that runs to completion has made exactly N calls
C17_ProgressAccounting ==
    \A g \in Gens :
        LET calls == notified[g]
        IN /\ Len(calls) = BagCardinality(scan[g].recv)
           /\ \A k \in 1..Len(calls) :
                  /\ calls[k].Completed = k
                  /\ calls[k].Total = Len(runSyms[g])
                  /\ calls[k].SuccessCount + calls[k].ErrorCount = k
                  /\ k <= calls[k].Total
                  /\ \E e \in Taken(g) : e.Symbol = calls[k].Current
           /\ \A k \in 1..(Len(calls) - 1) :
                  /\ calls[k].Completed <= calls[k + 1].Completed
                  /\ calls[k].SuccessCount <= calls[k + 1].SuccessCount
                  /\ calls[k].ErrorCount <= calls[k + 1].ErrorCount
           /\ Completed(g) => Len(calls) = Len(runSyms[g])

\* a completed Scan over two symbols was notified of a failure, then of a
\* success
C17_Witness ==
    /\ Completed(1)
    /\ Len(notified[1]) = 2
    /\ notified[1][1].ErrorCount = 1
    /\ notified[1][1].SuccessCount = 0
    /\ notified[1][2].ErrorCount = 1
    /\ notified[1][2].SuccessCount = 1
    /\ notified[1][1].Current # notified[1][2].Current

\* C18: FetchAll calls the progress callback once after each item it takes,
\* the k-th time with completed = k and total = len(symbols); it returns only
\* when the stream is closed and empty, and the list it returns is as long
\* as the number of calls made
C18_FetchAllProgress ==
    \A g \in Gens :
        /\ Len(notified[g]) = Len(scan[g].ret)
        /\ Len(notified[g]) = BagCardinality(scan[g].recv)
        /\ \A k \in 1..Len(notified[g]) :
               notified[g][k] = [Completed |-> k, Total |-> Len(runSyms[g])]
        /\ scan[g].pc = "collected"
             => resCh[g].closed /\ resCh[g].buf = <<>>

\* a stopped FetchAll over two symbols has returned the one item it took
C18_Witness ==
    /\ scan[1].pc = "collected"
    /\ ctxDone[1]
    /\ Len(runSyms[1]) = 2
    /\ Len(scan[1].ret) = 1
    /\ notified[1] = <<[Completed |-> 1, Total |-> 2]>>

\* ---------------------------------------------------------------------
\* Properties of cancellation and of readers
\* ---------------------------------------------------------------------

\* C19: Stop leaves the result list as it is, and from then on, while no
\* other Scan begins, every row of the list stays in it with the same field
\* values, through the rest of the loop and the return of the cancelled Scan
C19_NoRollback ==
    [][/\ Stop => results' = results
       /\ (gen' = gen /\ gen > 0 /\ ctxDone'[gen])
            => RowBag(results) \sqsubseteq RowBag(results')]_vars

\* a Scan stopped after its first result has returned, and the row it had
\* accepted is in the list
C19_Witness ==
    /\ scan[1].pc = "returned"
    /\ ctxDone[1]
    /\ Len(runSyms[1]) = 2
    /\ BagCardinality(scan[1].recv) = 1
    /\ \E k \in 1..Len(results) : results[k].Price > 0

\* the symbols of the rows of a list, in their order
SymbolsOf(rows) == [k \in 1..Len(rows) |-> rows[k].Symbol]

\* C20: the list a reader holds keeps its length and the order of its rows
\* whatever the engine does to its own list afterwards, until the reader
\* calls GetResults again
C20_DefensiveCopy ==
    [][got' = got
         => /\ Len(Held') = Len(Held)
            /\ SymbolsOf(Held') = SymbolsOf(Held)]_vars

\* the reader holds a list of one row while the engine's list has grown to
\* two rows and has the row the reader knows in second place
C20_Witness ==
    /\ got.array # "none"
    /\ Len(Held) = 1
    /\ Len(results) = 2
    /\ results[2].Symbol = Held[1].Symbol
    /\ results[1].Symbol # Held[1].Symbol

\* ---------------------------------------------------------------------
\* Properties of the scoring functions
\* ---------------------------------------------------------------------

\* what CalculateMetrics returned for arg.data
Scored == ret.fn = "CalculateMetrics"

\* C21: for every fetch result whose Error is set, CalculateMetrics returns
\* a result with HasError set and the error's message, the technical,
\* valuation, risk and confluence scores 0, the indicators (RSI, ATR, SMA20)
\* and the risk fields (stop loss, take profit, risk ratio, volatility) 0
\* and neither flag set, whatever the price, the fundamentals and the
\* series of the input are.
C21_ErrorShortCircuit ==
    (Scored /\ arg.data.Error # NoError) =>
        /\ ret.result.HasError
        /\ ret.result.ErrorMessage = arg.data.Error
        /\ \A f \in {"TechnicalScore", "ValuationScore", "RiskScore",
                      "ConfluenceScore", "RSI", "ATR", "SMA20", "StopLoss",
                      "TakeProfit", "RiskRatio", "Volatility"} :
              ret.result[f] = 0
        /\ ~ret.result.IsOversold
        /\ ~ret.result.IsUndervalued

\* a failed fetch that carries a price, fundamentals and twenty closes which
\* would score 100 without the error
C21_Witness ==
    /\ Scored
    /\ arg.data.Error # NoError
    /\ arg.data.Price > 0
    /\ arg.data.BookValue > 0
    /\ Len(arg.data.HistoricalPrices) >= 20
    /\ CalculateMetrics([arg.data EXCEPT !.Error = NoError]).ConfluenceScore
         = 10000
    /\ ret.result.Price = arg.data.Price
    /\ ret.result.BookValue = arg.data.BookValue

\* 0.30*technical + 0.40*valuation + 0.30*risk of a result, in hundredths
WeightedSum(r) ==
    (30 * r.TechnicalScore + 40 * r.ValuationScore + 30 * r.RiskScore) \div 100

\* the bonus points of a result, in hundredths
Bonuses(r) ==
    (IF r.IsOversold /\ r.IsUndervalued THEN 1000 ELSE 0)
    + (IF 0 < r.PBV /\ r.PBV < 100 THEN 500 ELSE 0)
    + (IF r.GrahamUpside > 5000 THEN 500 ELSE 0)
    + (IF r.RiskRatio >= 250 THEN 500 ELSE 0)

\* C22: the confluence score of every result CalculateMetrics returns lies
\* between 0 and 100, and it is exactly 100 when the weighted sum of the
\* three scores plus the bonus points exceeds 100.
C22_ConfluenceBounds ==
    Scored =>
        /\ 0 <= ret.result.ConfluenceScore
        /\ ret.result.ConfluenceScore <= 10000
        /\ WeightedSum(ret.result) + Bonuses(ret.result) > 10000
              => ret.result.ConfluenceScore = 10000

\* a result whose weighted sum is below 100 and whose bonus points carry it
\* over 100
C22_Witness ==
    /\ Scored
    /\ ~ret.result.HasError
    /\ WeightedSum(ret.result) < 10000
    /\ WeightedSum(ret.result) + Bonuses(ret.result) > 10000
    /\ ret.result.ConfluenceScore = 10000

\* the bonus points of the result CalculateMetrics made of data, with the
\* two flags spelled out: oversold is an RSI computed from more than 14
\* closes and below 35, undervalued is a PBV below 1.5 with a Graham upside
\* above 20
BonusesOf(data, r) ==
    (IF (Len(data.HistoricalPrices) > 14 /\ r.RSI < 3500)
        /\ (r.PBV < 150 /\ r.GrahamUpside > 2000)
     THEN 1000 ELSE 0)
    + (IF 0 < r.PBV /\ r.PBV < 100 THEN 500 ELSE 0)
    + (IF r.GrahamUpside > 5000 THEN 500 ELSE 0)
    + (IF r.RiskRatio >= 250 THEN 500 ELSE 0)

Min(a, b) == IF a < b THEN a ELSE b

\* C30: the confluence score is min(100, 0.30*technical + 0.40*valuation
\* + 0.30*risk + bonuses) with +10 for oversold and undervalued, +5 for
\* 0 < PBV < 1.0, +5 for a Graham upside above 50 and +5 for a risk:reward
\* of 2.5 or more: on every result handed to calculateConfluenceScore, and
\* on every result of CalculateMetrics with oversold read as a computed RSI
\* below 35 and undervalued as PBV < 1.5 with a Graham upside above 20.
C30_ConfluenceFormula ==
    /\ ret.fn = "calculateConfluenceScore"
          => ret.value = Min(10000, WeightedSum(arg.r) + Bonuses(arg.r))
    /\ (Scored /\ ~ret.result.HasError)
          => ret.result.ConfluenceScore
               = Min(10000, WeightedSum(ret.result)
                            + BonusesOf(arg.data, ret.result))

\* a result below the cap that earns every bonus but the low-PBV one, whose
\* PBV is unset
C30_Witness ==
    /\ ret.fn = "calculateConfluenceScore"
    /\ arg.r.IsOversold /\ arg.r.IsUndervalued
    /\ arg.r.PBV = 0
    /\ arg.r.GrahamUpside > 5000
    /\ arg.r.RiskRatio >= 250
    /\ WeightedSum(arg.r) = 3950
    /\ ret.value = 5950

\* a result of CalculateMetrics that is oversold and undervalued and stays
\* below the cap with its bonus points
C30_WitnessMetrics ==
    /\ Scored
    /\ ret.result.IsOversold /\ ret.result.IsUndervalued
    /\ ret.result.ConfluenceScore < 10000
    /\ ret.result.ConfluenceScore > WeightedSum(ret.result)

\* C37: a successfully fetched result whose book value and EPS are
\* unavailable (<= 0) and whose P/E is unavailable (<= 0) has the valuation
\* score 0, is not flagged undervalued, and its confluence score holds
\* neither the low-PBV bonus nor the Graham bonus: it is the weighted sum
\* plus at most the risk:reward bonus.
C37_NoCreditWithoutFundamentals ==
    (/\ Scored
     /\ arg.data.Error = NoError
     /\ arg.data.BookValue <= 0
     /\ arg.data.EPS <= 0
     /\ arg.data.PERatio <= 0)
       => /\ ret.result.ValuationScore = 0
          /\ ~ret.result.IsUndervalued
          /\ ret.result.ConfluenceScore
               = Min(10000, WeightedSum(ret.result)
                            + (IF ret.result.RiskRatio >= 250 THEN 500 ELSE 0))

\* C38: with a price above 0 and the multipliers 2.0 and 3.0, CalculateSLTP
\* returns a risk:reward ratio of exactly 1.5 whatever the ATR is, an ATR of
\* 0 or less included; hence in every successfully scored result with a
\* price above 0 the ratio is 1.5, the technical score is the score of the
\* same result without a ratio plus exactly 10, and the confluence score is
\* the one of the same result without a ratio: the bonus for a ratio of 2.5
\* or more is never in it.
C38_RiskRatioConstant ==
    /\ (/\ ret.fn = "CalculateSLTP"
        /\ arg.currentPrice > 0
        /\ arg.slMultiplier = 2 /\ arg.tpMultiplier = 3)
          => ret.risk.RiskRatio = 150
    /\ (Scored /\ ~ret.result.HasError /\ arg.data.Price > 0)
          => /\ ret.result.RiskRatio = 150
             /\ ret.result.TechnicalScore
                  = calculateTechnicalScore([ret.result EXCEPT !.RiskRatio = 0])
                    + 1000
             /\ ret.result.ConfluenceScore
                  = calculateConfluenceScore([ret.result EXCEPT !.RiskRatio = 0])

\* a scored result without an ATR, whose ratio comes from the 2% default
\* and whose technical score is the 10 points of the ratio alone
C38_Witness ==
    /\ Scored /\ ~ret.result.HasError
    /\ arg.data.Price = 9000
    /\ ret.result.ATR = 0
    /\ ret.result.RiskRatio = 150
    /\ ret.result.TechnicalScore = 1000

\* ---------------------------------------------------------------------
\* Properties of cancellation and of the criteria
\* ---------------------------------------------------------------------

\* C24: once Stop has cancelled the context of a run, no worker takes a
\* further symbol off the work queue of that run to fetch it: the queue
\* never gets shorter.
C24_NoDequeueAfterStop ==
    [][\A g \in Gens :
          ctxDone[g] => Len(symCh'[g].buf) >= Len(symCh[g].buf)]_vars

\* C25: SetCriteria leaves the result list as it is, the same rows in the
\* same order, and a row the scan loop appends to the list is pinned or
\* passes the criteria in force when it is processed.
C25_NotRetroactive ==
    [][/\ criteria' # criteria => results' = results
       /\ \A g \in Gens :
             (/\ scan[g].pc = "range"
              /\ scan'[g].recv # scan[g].recv
              /\ Len(results') = Len(results) + 1)
             => \/ results'[Len(results')].IsPinned
                \/ passesFilter(results'[Len(results')], criteria')]_vars

\* a scan has returned and the criteria were then set to ones that reject a
\* row of its list: the row is still there
C25_Witness ==
    /\ gen = 1
    /\ scan[1].pc = "returned"
    /\ criteria = RejectAllCriteria
    /\ \E i \in 1..Len(results) :
          /\ ~results[i].IsPinned
          /\ ~passesFilter(results[i], criteria)

\* no close of the series is below the one before it
NoLosingStep(prices) ==
    \A i \in 1..(Len(prices) - 1) : prices[i + 1] >= prices[i]

\* every close of the series is below the one before it
OnlyLosingSteps(prices) ==
    \A i \in 1..(Len(prices) - 1) : prices[i + 1] < prices[i]

\* C27: for a series of at least period+1 closes RSI lies between 0 and
\* 100, it is exactly 100 when no step loses, and when every step loses it
\* is a number all the same (0: the quotient avgGain / avgLoss has a
\* non-zero divisor); for a shorter series RSI is the neutral 50.
C27_RSIBounds ==
    ret.fn = "RSI" =>
        IF Len(arg.prices) >= arg.period + 1
        THEN /\ 0 <= ret.value
             /\ ret.value <= 10000
             /\ NoLosingStep(arg.prices) => ret.value = 10000
             /\ OnlyLosingSteps(arg.prices) => ret.value = 0
        ELSE ret.value = 5000

\* a series longer than period+1 whose every step loses, so that the
\* smoothing loop has run and the quotient was taken
C27_Witness ==
    /\ ret.fn = "RSI"
    /\ Len(arg.prices) > arg.period + 1
    /\ OnlyLosingSteps(arg.prices)
    /\ ret.value = 0

\* C28: for every result and every criteria the filter passes the result
\* exactly when it has no error, its RSI is within [MinRSI, MaxRSI] or is 0,
\* its PBV is at most MaxPBV or is 0, its Graham upside is at least
\* MinGrahamUpside, its confluence score is at least MinConfluence, it is
\* oversold if OnlyOversold is set and undervalued if OnlyUndervalued is set.
C28_FilterPredicate ==
    ret.fn = "passesFilter" =>
        ret.value =
            (/\ ~arg.r.HasError
             /\ \/ (arg.criteria.MinRSI <= arg.r.RSI
                     /\ arg.r.RSI <= arg.criteria.MaxRSI)
                \/ arg.r.RSI = 0
             /\ arg.r.PBV <= arg.criteria.MaxPBV \/ arg.r.PBV = 0
             /\ arg.r.GrahamUpside >= arg.criteria.MinGrahamUpside
             /\ arg.r.ConfluenceScore >= arg.criteria.MinConfluence
             /\ ~arg.criteria.OnlyOversold \/ arg.r.IsOversold
             /\ ~arg.criteria.OnlyUndervalued \/ arg.r.IsUndervalued)

\* a result without an RSI passes criteria whose range excludes 0
C28_Witness ==
    /\ ret.fn = "passesFilter"
    /\ arg.r.RSI = 0
    /\ arg.criteria.MinRSI > 0
    /\ arg.criteria.OnlyUndervalued
    /\ ret.value

\* the three buckets of the technical score, in hundredths of a point
RSIBucket(rsi) ==
    CASE rsi < 2500 -> 5000
      [] rsi >= 2500 /\ rsi < 3000 -> 4500
      [] rsi >= 3000 /\ rsi < 3500 -> 4000
      [] rsi >= 3500 /\ rsi < 4000 -> 3000
      [] rsi >= 4000 /\ rsi < 5000 -> 2000
      [] rsi >= 5000 /\ rsi < 6000 -> 1000
      [] rsi >= 6000 -> 0

\* the discount of the price to the average, in hundredths of a per cent
Discount(r) == ((r.SMA20 - r.Price) * 10000) \div r.SMA20

SMABucket(r) ==
    IF r.SMA20 > 0 /\ r.Price < r.SMA20
    THEN CASE Discount(r) > 1000 -> 3000
           [] Discount(r) > 500 /\ Discount(r) <= 1000 -> 2000
           [] Discount(r) <= 500 -> 1000
    ELSE 0

RiskRewardBucket(rr) ==
    CASE rr >= 300 -> 2000
      [] rr >= 200 /\ rr < 300 -> 1500
      [] rr >= 150 /\ rr < 200 -> 1000
      [] rr >= 100 /\ rr < 150 -> 500
      [] rr < 100 -> 0

\* C29 as stated: for every input the technical score is the sum of the
\* RSI bucket, the price-below-SMA20 bucket and the risk:reward bucket, and
\* lies within 0..100.
C29_TechnicalBuckets ==
    ret.fn = "calculateTechnicalScore" =>
        /\ ret.value = RSIBucket(arg.r.RSI) + SMABucket(arg.r)
                         + RiskRewardBucket(arg.r.RiskRatio)
        /\ 0 <= ret.value
        /\ ret.value <= 10000

\* C29 amended: the RSI bucket counts only when the RSI is above 0 (an RSI
\* of 0 scores nothing); with that the technical score is the sum of the
\* three buckets for every input and lies within 0..100.
C29_TechnicalBucketsOfSetRSI ==
    ret.fn = "calculateTechnicalScore" =>
        /\ ret.value = (IF arg.r.RSI > 0 THEN RSIBucket(arg.r.RSI) ELSE 0)
                         + SMABucket(arg.r)
                         + RiskRewardBucket(arg.r.RiskRatio)
        /\ 0 <= ret.value
        /\ ret.value <= 10000

\* a result with an RSI of 0, a price 20 per cent below the average and a
\* risk ratio of 3: it scores the 30 and the 20 points and nothing for RSI
C29_Witness ==
    /\ ret.fn = "calculateTechnicalScore"
    /\ arg.r.RSI = 0
    /\ arg.r.SMA20 = 10000
    /\ arg.r.Price = 8000
    /\ arg.r.RiskRatio = 300
    /\ ret.value = 5000

\* ---------------------------------------------------------------------
\* Properties of the data source
\* ---------------------------------------------------------------------

\* the number of FetchQuote and FetchHistorical goroutines, of all workers
\* of all runs, that are at one of the places pcs of makeRequest
At(pcs) ==
    LET n[g \in 0..MaxStarts] ==
          IF g = 0 THEN 0
          ELSE n[g - 1] + BagCardinality(
                 [x \in {w \in BagToSet(wk[g]) :
                            /\ w.pc \in {"wait", "fetched"}
                            /\ w.quote.pc \in pcs} |-> wk[g][x]])
               + BagCardinality(
                 [x \in {w \in BagToSet(wk[g]) :
                            /\ w.pc \in {"wait", "fetched"}
                            /\ w.hist.pc \in pcs} |-> wk[g][x]])
    IN n[MaxStarts]

\* the messages buffered in the result streams
Emitted == UNION {SeqToSet(resCh[g].buf) : g \in Gens}

\* data is quote-only: the quote's price, no error, no history
QuoteOnly(data) ==
    /\ data.Error = NoError
    /\ data.Price = 10000
    /\ data.HistoricalPrices = <<>>
    /\ data.HistoricalCloses = <<>>
    /\ data.HistoricalHighs = <<>>
    /\ data.HistoricalLows = <<>>

\* C23: FetchComplete returns only when the quote fetch and the historical
\* fetch are both done; the data it returns has Error set if and only if
\* the quote fetch failed; when the quote succeeded and the historical fetch
\* failed it is the quote data with Error unset and empty historical
\* series, and the worker puts just that on the result stream, where it
\* counts as a success.
C23_Degradation ==
    /\ \A g \in Gens : \A w \in BagToSet(wk[g]) :
          w.pc = "fetched" =>
             /\ w.quote.pc = "done"
             /\ w.hist.pc = "done"
             /\ (w.data.Error # NoError) <=> w.quote.err
             /\ (~w.quote.err /\ w.hist.err) => QuoteOnly(w.data)
    /\ \A m \in Emitted :
          /\ (m.data.Error # NoError) <=> m.o.quoteErr
          /\ (~m.o.quoteErr /\ m.o.histErr) =>
                /\ QuoteOnly(m.data)
                /\ ~CalculateMetrics(m.data).HasError

\* a quote-only result on the result stream: the quote was answered and
\* the history request failed
C23_Witness ==
    \E m \in Emitted :
       /\ ~m.o.quoteErr
       /\ m.o.histErr
       /\ QuoteOnly(m.data)
       /\ m.data.Symbol = ToUpper(m.req)

\* C26: one rate gate serves all workers: at most one caller is between
\* Lock and Unlock at any time, the mutex is held exactly then, and the
\* requests issued by all workers together, with the ticks taken for
\* requests yet to be issued and the tick still buffered, never exceed the
\* ticks the ticker has fired.
C26_GlobalRateLimit ==
    /\ At({"tick", "unlock"}) <= 1
    /\ mu <=> At({"tick", "unlock"}) = 1
    /\ requests + At({"unlock", "do"}) + rateLimiter.C <= rateLimiter.ticks

\* two workers, three requests issued on three ticks, the fourth caller
\* inside the gate waiting for the next tick
C26_Witness ==
    /\ workers = 2
    /\ Cardinality(UNION {BagToSet(wk[g]) : g \in Gens}) = 2
    /\ requests = 3
    /\ rateLimiter = [ticks |-> 3, C |-> 0]
    /\ At({"tick"}) = 1

\* ---------------------------------------------------------------------
\* Properties of the last-error slot
\* ---------------------------------------------------------------------

\* the progress notification before the first one of a Scan
NoProgress == ScanProgress(0, 0, "", 0, 0, "", "")

\* C31: at every progress notification of a Scan the last-error slot is
\* that of the most recent result received with an error: a notification
\* for an errored result carries that result's symbol and message, a
\* notification for a good result carries the slot of the notification
\* before, the slot is empty while ErrorCount = 0, the errors counted are
\* the errored results received; and the loop goes on after an error: a
\* Scan that is not stopped is notified of every symbol.
C31_LastErrorSlot ==
    \A g \in Gens :
        LET calls == notified[g]
            before(k) == IF k = 1 THEN NoProgress ELSE calls[k - 1]
        IN /\ \A k \in 1..Len(calls) :
                 /\ calls[k].ErrorCount = 0 =>
                        calls[k].LastError = "" /\ calls[k].ErrorSymbol = ""
                 /\ IF calls[k].ErrorCount > before(k).ErrorCount
                    THEN /\ calls[k].LastError = FetchError
                         /\ calls[k].ErrorSymbol = calls[k].Current
                    ELSE /\ calls[k].LastError = before(k).LastError
                         /\ calls[k].ErrorSymbol = before(k).ErrorSymbol
           /\ Len(calls) > 0 =>
                 calls[Len(calls)].ErrorCount
                    = BagCardinality([e \in {x \in BagToSet(scan[g].recv) :
                                              x.Error # NoError}
                                        |-> scan[g].recv[e]])
           /\ Completed(g) => Len(calls) = Len(runSyms[g])

\* a completed Scan over two symbols: the first result failed, the second
\* did not, and the second notification still names the first symbol and
\* its error
C31_Witness ==
    /\ Completed(1)
    /\ Len(notified[1]) = 2
    /\ notified[1][1].ErrorCount = 1
    /\ notified[1][2].SuccessCount = 1
    /\ notified[1][2].LastError = FetchError
    /\ notified[1][2].ErrorSymbol = notified[1][1].Current
    /\ notified[1][2].ErrorSymbol # notified[1][2].Current

\* ---------------------------------------------------------------------
\* Properties of a pool that is started again
\* ---------------------------------------------------------------------

\* C32: no sequence of Start, Stop and steps of the goroutines of one pool
\* ends in a runtime failure: no close of a closed channel, no send on a
\* closed channel, no negative WaitGroup counter.
C32_NoRuntimeFailure ==
    panicked \notin {"close of closed channel", "send on closed channel",
                     "sync: negative WaitGroup counter"}

\* C33: the result stream of a run superseded by a new Start still gets
\* closed, so that the caller ranging over it returns.  A stream is closed
\* by the closing goroutine of its run and by nothing else, so once that
\* goroutine has done its close the stream of its run is closed.
C33_SupersededStreamClosed ==
    \A g \in Gens : closer[g] = "done" => resCh[g].closed

\* the caller of run g has all there is to get: one result per symbol asked
Delivered(g) ==
    /\ BagCardinality(scan[g].recv) = Len(runSyms[g])
    /\ \A s \in SeqToSet(runSyms[g]) :
          NumTaken(g, s) = Cardinality({i \in 1..Len(runSyms[g]) :
                                          runSyms[g][i] = s})

\* FetchAll has returned from run g, the latest run, which was not stopped
Collected(g) == scan[g].pc = "collected" /\ gen = g /\ ~ctxDone[g]

\* C34: a Stop issued before a Start, with the previous run at its end, has
\* no effect on the run started afterwards: the new run starts with a live
\* context, nothing fails, and unless Stop is called again during it the
\* run delivers one result per symbol, closes its stream and its caller
\* returns.
C34_StopDoesNotLeak ==
    /\ [](panicked = "")
    /\ [][gen' # gen => ~ctxDone'[gen']]_vars
    /\ [](\A g \in Gens : Collected(g) => Delivered(g) /\ resCh[g].closed)
    /\ \A g \in Gens :
          (scan[g].pc = "collect")
             ~> (scan[g].pc = "collected" /\ (ctxDone[g] \/ Delivered(g)))

\* the second run, started after a Stop on the pool at rest, has delivered
\* its two results and its stream is closed; the first run had delivered
\* all of its own
C34_Witness ==
    /\ Collected(2)
    /\ ctxDone[0]
    /\ ctxDone[1]
    /\ Delivered(1)
    /\ Delivered(2)
    /\ Len(runSyms[2]) = 2
    /\ resCh[2].closed

\* ---------------------------------------------------------------------
\* Properties of the rows of one symbol
\* ---------------------------------------------------------------------

\* no two entries of the list l are spellings of one symbol
DistinctSymbols(l) ==
    \A i, j \in 1..Len(l) : i # j => ToUpper(l[i]) # ToUpper(l[j])

\* C35: with the Scan calls one after the other, each over a list of
\* distinct symbols, and the watchlist edited between them, the result list
\* holds at most one row for a symbol; and with an empty watchlist a Scan
\* returns no more rows than it was given symbols.
C35_OneRowPerSymbol ==
    (\A g \in Gens : DistinctSymbols(runSyms[g])) =>
        /\ \A i, j \in 1..Len(results) :
              i # j => ToUpper(results[i].Symbol) # ToUpper(results[j].Symbol)
        /\ \A g \in Gens :
              (scan[g].pc = "returned" /\ watchlist = {})
                 => Len(scan[g].ret) <= Len(runSyms[g])

\* C36: when AddToWatchlist(s) or RemoveFromWatchlist(s) runs while a Scan
\* whose list contains s is in its loop, the list that Scan returns still
\* holds at most one row for s.
C36_OneRowUnderEdits ==
    \A g \in Gens :
        scan[g].pc = "returned" =>
            \A s \in SeqToSet(runSyms[g]) : NumRows(g, s) <= 1

\* ---------------------------------------------------------------------
\* Properties of the alerts manager
\* ---------------------------------------------------------------------

\* the Alert values allocated so far
AlertRefs == 1..Len(alertObjs)

\* C39: an alert fires at most once between resets, an inactive alert never
\* fires, and what CheckPrice returns it also appends to the buffer. An
\* alert's IsTriggered is set by CheckPrice alone and only on an active
\* alert; it is cleared by ResetAlert for the alert's ID alone; every entry
\* CheckPrice returns is a copy of an alert that was active and not
\* triggered before the call and is triggered after it; and the buffer
\* after the call is the buffer before it followed by the returned entries.
C39_AlertFiresOnce ==
    /\ [][\A a \in AlertRefs :
            (~alertObjs[a].IsTriggered /\ alertObjs'[a].IsTriggered)
               => alertObjs[a].IsActive /\ ret'.fn = "CheckPrice"]_vars
    /\ [][\A a \in AlertRefs :
            (alertObjs[a].IsTriggered /\ ~alertObjs'[a].IsTriggered)
               => ret'.fn = "ResetAlert" /\ ret'.id = alertObjs[a].ID]_vars
    /\ [][(ret'.fn = "CheckPrice" /\ now' = now)
            => /\ \A i \in 1..Len(ret'.triggered) :
                     \E a \in AlertRefs :
                        /\ alertObjs'[a] = ret'.triggered[i].Alert
                        /\ alertObjs[a].IsActive
                        /\ ~alertObjs[a].IsTriggered
                        /\ alertObjs'[a].IsTriggered
               /\ triggeredAlerts' = triggeredAlerts \o ret'.triggered]_vars

\* CheckPrice has just fired the alert on the price for the second time,
\* after a reset, while the alert on the crossing beside it, switched off,
\* stayed silent at a price that crosses its threshold
C39_Witness ==
    /\ Len(alertObjs) = 2
    /\ alertObjs[1].Type = "above" /\ alertObjs[2].Type = "cross"
    /\ ret.fn = "CheckPrice"
    /\ Len(ret.triggered) = 1
    /\ ret.triggered[1].CurrentPrice = 110
    /\ Len(triggeredAlerts) = 2
    /\ triggeredAlerts[1].Alert.Type = "above"
    /\ triggeredAlerts[2] = ret.triggered[1]
    /\ alertObjs[1] = ret.triggered[1].Alert
    /\ ~alertObjs[2].IsActive /\ ~alertObjs[2].IsTriggered
    /\ 2 \in SeqToSet(symbolAlerts["AA"])

\* ---------------------------------------------------------------------
\* Properties of the watchlist manager
\* ---------------------------------------------------------------------

\* the two spellings name one symbol
SameSymbol(s, t) == ToUpper(s) = ToUpper(t)

\* every stored symbol is in upper case, in the set and in the file
StoredUpper ==
    \A s \in watchlist \cup disk : s = ToUpper(s)

\* IsPinned(s) after a call: true after Add of s in either case, false after
\* Remove of s and after Clear, what Toggle of s returned, and otherwise
\* what it was
PinnedFollowsCalls ==
    \A s \in ManagerTickers :
       (ToUpper(s) \in watchlist')
          = IF arg'.fn = "Add" /\ SameSymbol(arg'.symbol, s) THEN TRUE
            ELSE IF arg'.fn = "Remove" /\ SameSymbol(arg'.symbol, s) THEN FALSE
            ELSE IF arg'.fn = "Toggle" /\ SameSymbol(arg'.symbol, s)
            THEN ret'.added /\ ~IsPinned(s)
            ELSE IF arg'.fn = "Clear" THEN FALSE
            ELSE IsPinned(s)

\* an Add of the symbol the call before added leaves the set as it is
AddIdempotent ==
    (arg.fn = "Add" /\ arg'.fn = "Add" /\ SameSymbol(arg.symbol, arg'.symbol))
       => watchlist' = watchlist

\* a second Toggle of the symbol gives back the set the first one found
ToggleTwice ==
    (arg.fn = "Toggle" /\ arg'.fn = "Toggle"
     /\ SameSymbol(arg.symbol, arg'.symbol))
       => watchlist' = arg.symbols

\* C40 as stated: the stored symbols are upper case, each once; IsPinned
\* follows the calls; Add is idempotent; two Toggle calls in a row restore
\* the membership; and a Remove right after an Add of the same symbol gives
\* back the set the Add found, whatever that set was.
C40_ManagerLaws ==
    /\ [](StoredUpper)
    /\ [][PinnedFollowsCalls]_vars
    /\ [][AddIdempotent]_vars
    /\ [][ToggleTwice]_vars
    /\ [][(arg.fn = "Add" /\ arg'.fn = "Remove"
           /\ SameSymbol(arg.symbol, arg'.symbol))
             => watchlist' = arg.symbols]_vars

\* C40, amended: the same, with the Remove right after an Add giving back
\* the set the Add found when the symbol was not in that set.
C40_ManagerLawsNewSymbol ==
    /\ [](StoredUpper)
    /\ [][PinnedFollowsCalls]_vars
    /\ [][AddIdempotent]_vars
    /\ [][ToggleTwice]_vars
    /\ [][(arg.fn = "Add" /\ arg'.fn = "Remove"
           /\ SameSymbol(arg.symbol, arg'.symbol)
           /\ ToUpper(arg.symbol) \notin arg.symbols)
             => watchlist' = arg.symbols]_vars

\* Remove("AA") has just taken AA out of the set {AA, BB}, as it does right
\* after an Add("aa") that found BB alone: BB is what the set and the file
\* hold, and neither spelling of AA is pinned
C40_Witness ==
    /\ arg.fn = "Remove" /\ arg.symbol = "AA"
    /\ arg.symbols = {"AA", "BB"}
    /\ watchlist = {"BB"}
    /\ disk = {"BB"}
    /\ ~IsPinned("aa")

====
